---- MODULE Spec2Model ----
(***************************************************************************)
(* Model of the player controller of src/main/main.py (class Player) and   *)
(* of the objects its update touches (InputManager, Platform, Grenade).    *)
(*                                                                         *)
(* Units.  The source computes with floats; the model uses fixed point:    *)
(*   time      milliseconds        (delta_time = clock.tick()/1000.0)      *)
(*   length    1/1000 pixel (mpx)                                          *)
(*   velocity  mpx per second                                              *)
(* so that velocity * delta_time and acceleration * delta_time are exact   *)
(* up to one mpx.  Products with a fractional factor (friction, jump cut)  *)
(* are truncated toward zero at 1/1000.  pygame.Rect truncates its float   *)
(* arguments to whole pixels, and so does the model (Px).                  *)
(***************************************************************************)
EXTENDS Integers, Sequences, FiniteSets, TLC

\* ------------------------------------------------------------------ bounds
\* number of Player.update calls explored from construction
MaxTicks == 7
\* number of external events in a run: KEYDOWN / KEYUP events of the input
\* device and bullets that reach the player
MaxEvents == 2

\* ------------------------------------------------------- GameConfig values
GROUND_ACCELERATION == 1400
GROUND_FRICTION_PCT == 88
GROUND_MAX_SPEED == 240
AIR_ACCELERATION == 900
AIR_FRICTION_PCT == 97
AIR_MAX_SPEED == 220
JUMP_STRENGTH == -425
DOUBLE_JUMP_STRENGTH == -400
GRAVITY == 1150
MAX_FALL_SPEED == 520
JUMP_CUT_PCT == 40
MIN_JUMP_TIME == 100
COLLISION_TOLERANCE == 1
MAX_PENETRATION == 2
COYOTE_TIME == 120
JUMP_BUFFER == 180
WALL_SLIDE_SPEED == 100
WALL_JUMP_X_FORCE == 280
WALL_JUMP_Y_FORCE == -380
WALL_JUMP_MOMENTUM_TIME == 200
DASH_SPEED == 380
DASH_DURATION == 150
DASH_COOLDOWN == 600
DASH_INVINCIBILITY_TIME == 250
DASH_JUMP_WINDOW == 250
GROUND_POUND_SPEED == 450
GROUND_POUND_BOUNCE == -180
GROUND_POUND_MIN_HEIGHT == 120
GROUND_POUND_COOLDOWN == 300
GROUND_POUND_SUPER_BOUNCE_PCT == 150
GROUND_POUND_SUPER_BOUNCE_BUFFER == 200
GROUND_POUND_MOMENTUM_PCT == 180
GROUND_POUND_MAX_MOMENTUM == 320
WORLD_WIDTH == 2400
RESPAWN_Y_THRESHOLD == 1000
GRENADE_THROW_COOLDOWN == 1000
GRENADE_FUSE_TIME == 3000
MAX_HEALTH == 100
MAX_JUMPS == 2
MAX_GRENADES == 3
BULLET_DAMAGE == 25
DAMAGE_INVINCIBILITY_TIME == 1000
STUCK_TIME == 1000
LEDGE_RELEASE_TIME == 200
LEDGE_CLIMB_SPEED == 180
RECT_WIDTH == 32
RECT_HEIGHT == 48

\* ------------------------------------------------------------ fixed point
\* one pixel, one pixel per second, in model units
Unit == 1000

\* a / b truncated toward zero (b > 0)
Quot(a, b) == IF a >= 0 THEN a \div b ELSE -((-a) \div b)

\* float -> int conversion of Python's int() and of pygame.Rect's arguments
Px(v) == Quot(v, Unit)

Abs(a) == IF a < 0 THEN -a ELSE a
Min(a, b) == IF a < b THEN a ELSE b
Max(a, b) == IF a > b THEN a ELSE b

\* v * pct/100, the product with a fractional factor
Pct(v, pct) == Quot(v * pct, 100)

\* velocity (mpx/s) held for dt ms: displacement in mpx
Move(v, dt) == Quot(v * dt, 1000)

\* DASH_SPEED times a component of the normalised 8-way direction
\* (1/sqrt 2 = 0.70710678 on a diagonal)
DashComponent(c, diagonal) ==
    IF diagonal THEN c * Quot(DASH_SPEED * 707107, 1000) ELSE c * DASH_SPEED * Unit

\* the one element of a one-element set: a chain of steps of a method is
\* written { step3(c) : c \in { step2(b) : b \in { step1(a) : a \in {r} } } },
\* innermost step first, so that each step works on the finished value of
\* the step before it
Only(S) == CHOOSE v \in S : TRUE

\* -------------------------------------------------------------- geometry
\* pygame.Rect: left, top, width, height in whole pixels
Rect(l, t, w, h) == [l |-> l, t |-> t, w |-> w, h |-> h]

\* pygame.Rect.colliderect: strict overlap on both axes
CollideRect(a, b) ==
    /\ a.l < b.l + b.w
    /\ a.l + a.w > b.l
    /\ a.t < b.t + b.h
    /\ a.t + a.h > b.t

\* The level: the platforms of PlatformerGame._create_level_geometry, in
\* list order (ground, floating platforms, walls, upper platforms).
Platforms ==
    << Rect(0, 600, 400, 100), Rect(600, 600, 400, 100),
       Rect(1200, 600, 400, 100), Rect(1800, 600, 400, 100),
       Rect(300, 500, 150, 20), Rect(700, 450, 120, 20),
       Rect(200, 350, 100, 20), Rect(900, 400, 140, 20),
       Rect(1300, 350, 100, 20), Rect(1600, 500, 150, 20),
       Rect(2000, 400, 120, 20),
       Rect(550, 300, 20, 200), Rect(1100, 200, 20, 250),
       Rect(1800, 300, 20, 200),
       Rect(100, 200, 200, 20), Rect(800, 150, 180, 20),
       Rect(1500, 200, 200, 20) >>

\* index of the first platform of the list that r collides with, 0 if none
\* (the for ... if colliderect ... break loops)
RECURSIVE FirstFrom(_, _, _)
FirstFrom(plats, r, i) ==
    IF i > Len(plats) THEN 0
    ELSE IF CollideRect(r, plats[i]) THEN i
    ELSE FirstFrom(plats, r, i + 1)

FirstHit(plats, r) == FirstFrom(plats, r, 1)

\* the body's box around a float position (x, y): Rect(x - w//2, y - h//2, w, h)
BodyRect(x, y) ==
    Rect(Px(x - (RECT_WIDTH \div 2) * Unit), Px(y - (RECT_HEIGHT \div 2) * Unit),
         RECT_WIDTH, RECT_HEIGHT)

\* ------------------------------------------------------------------ input
\* logical keys of InputManager.control_mappings; ground_pound is mapped to
\* the keys of move_down
Keys == {"left", "right", "up", "down", "jump", "dash", "grenade"}

\* the per-frame snapshot read through is_held / is_pressed
Snapshot(heldKeys, pressedKeys) ==
    [ left |-> "left" \in heldKeys,
      right |-> "right" \in heldKeys,
      up |-> "up" \in heldKeys,
      down |-> "down" \in heldKeys,
      jump_pressed |-> "jump" \in pressedKeys,
      jump_held |-> "jump" \in heldKeys,
      dash_pressed |-> "dash" \in pressedKeys,
      grenade_pressed |-> "grenade" \in pressedKeys,
      ground_pound_pressed |-> "down" \in pressedKeys ]

\* ----------------------------------------------------------------- player
\* Player.__init__: the fields of a player spawned at (sx, sy), in pixels.
\* The last group (ev_*) is not state of the player: it records what the
\* current call did, for the properties below.
NoEvents ==
    [ ev_respawn |-> FALSE, ev_gp_start |-> FALSE, ev_gp_try |-> "none",
      ev_gp_height |-> 0, ev_impact |-> "none", ev_shake |-> 0,
      ev_dash_start |-> FALSE, ev_jump |-> "none", ev_ledge |-> FALSE,
      ev_gp_buffered |-> FALSE, ev_thrown |-> << >>, ev_normal |-> FALSE,
      ev_wall |-> 0, ev_wall_vx |-> 0,
      ev_dash_timer |-> 0, ev_dash_cooldown |-> 0,
      ev_dash_move |-> FALSE, ev_int_vx |-> 0, ev_int_vy |-> 0,
      ev_wall_vx_out |-> 0, ev_cut |-> FALSE, ev_cut_early |-> FALSE,
      ev_hm_vx |-> 0, ev_hm_idle_vx |-> 0, ev_hm_timer |-> 0, ev_jump_wall |-> 0 ]

EvFields == DOMAIN NoEvents

PlayerInit(sx, sy) ==
    [ x |-> sx * Unit, y |-> sy * Unit,
      spawn_x |-> sx * Unit, spawn_y |-> sy * Unit,
      rect_cx |-> sx + RECT_WIDTH \div 2, rect_cy |-> sy + RECT_HEIGHT \div 2,
      vx |-> 0, vy |-> 0,
      max_speed |-> GROUND_MAX_SPEED,
      is_on_ground |-> FALSE, was_on_ground |-> FALSE,
      is_on_wall |-> FALSE, wall_direction |-> 0,
      is_grabbing_ledge |-> FALSE, ledge_grab_timer |-> 0,
      movement_locked |-> FALSE, stuck_detection_timer |-> 0,
      jump_count |-> 0, jump_time_remaining |-> 0, can_cut_jump |-> FALSE,
      coyote_time_remaining |-> 0, jump_buffer_timer |-> 0,
      dash_timer |-> 0, dash_cooldown_timer |-> 0,
      dash_dx |-> 0, dash_dy |-> 0,
      is_invincible |-> FALSE, invincibility_timer |-> 0,
      dash_jump_window_timer |-> 0,
      wall_jump_momentum_timer |-> 0,
      is_ground_pounding |-> FALSE, ground_pound_cooldown_timer |-> 0,
      ground_pound_super_bounce_buffer |-> 0,
      ground_pound_directional_input |-> 0,
      facing_right |-> TRUE,
      health |-> MAX_HEALTH,
      grenade_cooldown_timer |-> 0, remaining_grenades |-> MAX_GRENADES ]

PlayerFields == DOMAIN PlayerInit(0, 0)

\* Player.get_height_above_ground: distance to the nearest platform top at
\* or below the position, among the platforms within 50 px of its x; 0 if none
RECURSIVE HeightFrom(_, _, _, _, _)
HeightFrom(plats, x, y, i, best) ==
    IF i > Len(plats) THEN best
    ELSE LET pl == plats[i]
             above == /\ x >= (pl.l - 50) * Unit
                      /\ x <= (pl.l + pl.w + 50) * Unit
                      /\ y <= pl.t * Unit
             d == pl.t * Unit - y
         IN HeightFrom(plats, x, y, i + 1,
                       IF above /\ (best < 0 \/ d < best) THEN d ELSE best)

get_height_above_ground(w, plats) ==
    LET m == HeightFrom(plats, w.x, w.y, 1, -1) IN IF m < 0 THEN 0 ELSE m

\* a faulty respawn that restores the position but keeps the velocity
respawn_keeping_velocity(w) ==
    [w EXCEPT !.x = w.spawn_x, !.y = w.spawn_y,
              !.health = MAX_HEALTH,
              !.remaining_grenades = MAX_GRENADES,
              !.is_on_ground = FALSE,
              !.is_ground_pounding = FALSE,
              !.dash_cooldown_timer = 0,
              !.grenade_cooldown_timer = 0,
              !.ground_pound_cooldown_timer = 0,
              !.movement_locked = FALSE,
              !.stuck_detection_timer = 0,
              !.ev_respawn = TRUE]

\* Player.respawn
respawn(w) ==
    [w EXCEPT !.x = w.spawn_x, !.y = w.spawn_y,
              !.vx = 0, !.vy = 0,
              !.health = MAX_HEALTH,
              !.remaining_grenades = MAX_GRENADES,
              !.is_on_ground = FALSE,
              !.is_ground_pounding = FALSE,
              !.dash_cooldown_timer = 0,
              !.grenade_cooldown_timer = 0,
              !.ground_pound_cooldown_timer = 0,
              !.movement_locked = FALSE,
              !.stuck_detection_timer = 0,
              !.ev_respawn = TRUE]

\* a faulty _start_ground_pound that keeps the horizontal velocity
_start_ground_pound_keeping_vx(w) ==
    [w EXCEPT !.is_ground_pounding = TRUE,
              !.vy = GROUND_POUND_SPEED * Unit,
              !.can_cut_jump = FALSE,
              !.dash_timer = 0,
              !.ev_gp_start = TRUE]

\* Player._start_ground_pound
_start_ground_pound(w) ==
    [w EXCEPT !.is_ground_pounding = TRUE,
              !.vx = 0,
              !.vy = GROUND_POUND_SPEED * Unit,
              !.can_cut_jump = FALSE,
              !.dash_timer = 0,
              !.ev_gp_start = TRUE]

\* a faulty _try_start_ground_pound without the height requirement
_try_start_ground_pound_any_height(w, plats) ==
    LET h == get_height_above_ground(w, plats) IN
    IF w.is_ground_pounding THEN [w EXCEPT !.ev_gp_try = "active"]
    ELSE IF w.ground_pound_cooldown_timer > 0 THEN [w EXCEPT !.ev_gp_try = "cooldown"]
    ELSE IF w.is_on_ground THEN [w EXCEPT !.ev_gp_try = "grounded"]
    ELSE [_start_ground_pound(w) EXCEPT !.ev_gp_try = "started", !.ev_gp_height = h]

\* a faulty _try_start_ground_pound that does not wait for the cooldown
_try_start_ground_pound_no_cooldown(w, plats) ==
    LET h == get_height_above_ground(w, plats) IN
    IF w.is_ground_pounding THEN [w EXCEPT !.ev_gp_try = "active"]
    ELSE IF w.is_on_ground THEN [w EXCEPT !.ev_gp_try = "grounded"]
    ELSE IF h < GROUND_POUND_MIN_HEIGHT * Unit
         THEN [w EXCEPT !.ev_gp_try = "low", !.ev_gp_height = h]
    ELSE [_start_ground_pound(w) EXCEPT !.ev_gp_try = "started", !.ev_gp_height = h]

\* Player._try_start_ground_pound: the early returns, then the start
_try_start_ground_pound(w, plats) ==
    LET h == get_height_above_ground(w, plats) IN
    IF w.is_ground_pounding THEN [w EXCEPT !.ev_gp_try = "active"]
    ELSE IF w.ground_pound_cooldown_timer > 0 THEN [w EXCEPT !.ev_gp_try = "cooldown"]
    ELSE IF w.is_on_ground THEN [w EXCEPT !.ev_gp_try = "grounded"]
    ELSE IF h < GROUND_POUND_MIN_HEIGHT * Unit
         THEN [w EXCEPT !.ev_gp_try = "low", !.ev_gp_height = h]
    ELSE [_start_ground_pound(w) EXCEPT !.ev_gp_try = "started", !.ev_gp_height = h]

\* a faulty _handle_ground_pound_impact that ignores the super-bounce buffer
_handle_ground_pound_impact_plain(w, camera, by) ==
    IF ~w.is_ground_pounding THEN w
    ELSE
    LET momentum == Pct(w.ground_pound_directional_input * GROUND_MAX_SPEED * Unit,
                        GROUND_POUND_MOMENTUM_PCT)
        capped == Max(-GROUND_POUND_MAX_MOMENTUM * Unit,
                      Min(GROUND_POUND_MAX_MOMENTUM * Unit, momentum))
    IN [w EXCEPT !.vy = GROUND_POUND_BOUNCE * Unit,
                 !.vx = IF w.ground_pound_directional_input # 0 THEN capped ELSE @,
                 !.is_ground_pounding = FALSE,
                 !.ground_pound_cooldown_timer = GROUND_POUND_COOLDOWN,
                 !.ground_pound_super_bounce_buffer = 0,
                 !.ev_shake = IF camera THEN @ + 1 ELSE @,
                 !.ev_impact = by]

\* Player._handle_ground_pound_impact; by records which caller detected it
_handle_ground_pound_impact(w, camera, by) ==
    IF ~w.is_ground_pounding THEN w
    ELSE
    LET bounce == IF w.ground_pound_super_bounce_buffer > 0
                  THEN Pct(GROUND_POUND_BOUNCE * Unit, GROUND_POUND_SUPER_BOUNCE_PCT)
                  ELSE GROUND_POUND_BOUNCE * Unit
        momentum == Pct(w.ground_pound_directional_input * GROUND_MAX_SPEED * Unit,
                        GROUND_POUND_MOMENTUM_PCT)
        capped == Max(-GROUND_POUND_MAX_MOMENTUM * Unit,
                      Min(GROUND_POUND_MAX_MOMENTUM * Unit, momentum))
    IN [w EXCEPT !.vy = bounce,
                 !.vx = IF w.ground_pound_directional_input # 0 THEN capped ELSE @,
                 !.is_ground_pounding = FALSE,
                 !.ground_pound_cooldown_timer = GROUND_POUND_COOLDOWN,
                 !.ground_pound_super_bounce_buffer = 0,
                 !.ev_shake = IF camera THEN @ + 1 ELSE @,
                 !.ev_impact = by]

\* Grenade.__init__ as called by Player._throw_grenade: thrown 250 px ahead
\* and 50 px up from (x, y - 10); the normalised direction times
\* min(350, 2.2 * distance) = 350, then velocity.y -= 120
NewGrenade(w) ==
    [ x |-> w.x, y |-> w.y - 10 * Unit,
      vx |-> IF w.facing_right THEN 343203 ELSE -343203,
      vy |-> -68641 - 120 * Unit,
      fuse_time_remaining |-> GRENADE_FUSE_TIME,
      has_exploded |-> FALSE,
      explosion_animation_timer |-> 0 ]

\* Player._throw_grenade
_throw_grenade(w) ==
    [w EXCEPT !.ev_thrown = Append(@, NewGrenade(w)),
              !.remaining_grenades = @ - 1,
              !.grenade_cooldown_timer = GRENADE_THROW_COOLDOWN]

\* a faulty _process_input that throws a grenade without looking at
\* grenade_cooldown_timer
_process_input_no_cooldown(w, inp, plats) ==
    LET w1 == [w EXCEPT !.ground_pound_directional_input =
                    IF inp.right THEN 1 ELSE IF inp.left THEN -1 ELSE 0]
        w2 == IF inp.up /\ w1.movement_locked
              THEN [w1 EXCEPT !.movement_locked = FALSE,
                              !.stuck_detection_timer = 0,
                              !.vx = 0]
              ELSE w1
        w3 == IF inp.grenade_pressed /\ w2.remaining_grenades > 0
              THEN _throw_grenade(w2) ELSE w2
        w4 == IF inp.ground_pound_pressed THEN _try_start_ground_pound(w3, plats) ELSE w3
    IN IF inp.jump_pressed /\ w4.is_ground_pounding
       THEN [w4 EXCEPT !.ground_pound_super_bounce_buffer = GROUND_POUND_SUPER_BOUNCE_BUFFER,
                       !.ev_gp_buffered = TRUE]
       ELSE w4

\* a faulty _process_input that tries the ground pound while down is held,
\* not only when it is newly pressed
_process_input_pound_while_held(w, inp, plats) ==
    LET w1 == [w EXCEPT !.ground_pound_directional_input =
                    IF inp.right THEN 1 ELSE IF inp.left THEN -1 ELSE 0]
        w2 == IF inp.up /\ w1.movement_locked
              THEN [w1 EXCEPT !.movement_locked = FALSE,
                              !.stuck_detection_timer = 0,
                              !.vx = 0]
              ELSE w1
        w3 == IF inp.grenade_pressed /\ w2.grenade_cooldown_timer <= 0
                 /\ w2.remaining_grenades > 0
              THEN _throw_grenade(w2) ELSE w2
        w4 == IF inp.down THEN _try_start_ground_pound(w3, plats) ELSE w3
    IN IF inp.jump_pressed /\ w4.is_ground_pounding
       THEN [w4 EXCEPT !.ground_pound_super_bounce_buffer = GROUND_POUND_SUPER_BOUNCE_BUFFER,
                       !.ev_gp_buffered = TRUE]
       ELSE w4

\* Player._process_input
_process_input(w, inp, plats) ==
    LET w1 == [w EXCEPT !.ground_pound_directional_input =
                    IF inp.right THEN 1 ELSE IF inp.left THEN -1 ELSE 0]
        w2 == IF inp.up /\ w1.movement_locked
              THEN [w1 EXCEPT !.movement_locked = FALSE,
                              !.stuck_detection_timer = 0,
                              !.vx = 0]
              ELSE w1
        w3 == IF inp.grenade_pressed /\ w2.grenade_cooldown_timer <= 0
                 /\ w2.remaining_grenades > 0
              THEN _throw_grenade(w2) ELSE w2
        w4 == IF inp.ground_pound_pressed THEN _try_start_ground_pound(w3, plats) ELSE w3
    IN IF inp.jump_pressed /\ w4.is_ground_pounding
       THEN [w4 EXCEPT !.ground_pound_super_bounce_buffer = GROUND_POUND_SUPER_BOUNCE_BUFFER,
                       !.ev_gp_buffered = TRUE]
       ELSE w4

\* one entry of the timer loop of _update_timers
Countdown(t, dt) == IF t > 0 THEN t - dt ELSE t

\* Player._update_timers
_update_timers(w, dt) ==
    LET w1 == [w EXCEPT
                 !.coyote_time_remaining = Countdown(@, dt),
                 !.jump_buffer_timer = Countdown(@, dt),
                 !.dash_timer = Countdown(@, dt),
                 !.dash_cooldown_timer = Countdown(@, dt),
                 !.invincibility_timer = Countdown(@, dt),
                 !.dash_jump_window_timer = Countdown(@, dt),
                 !.wall_jump_momentum_timer = Countdown(@, dt),
                 !.jump_time_remaining = Countdown(@, dt),
                 !.ledge_grab_timer = Countdown(@, dt),
                 !.grenade_cooldown_timer = Countdown(@, dt),
                 !.stuck_detection_timer = Countdown(@, dt),
                 !.ground_pound_cooldown_timer = Countdown(@, dt),
                 !.ground_pound_super_bounce_buffer = Countdown(@, dt)]
        w2 == IF w1.invincibility_timer <= 0
              THEN [w1 EXCEPT !.is_invincible = FALSE] ELSE w1
        stuck == /\ Abs(w2.vx) < 5 * Unit
                 /\ Abs(w2.vy) < 5 * Unit
                 /\ ~w2.is_on_ground
        t == w2.stuck_detection_timer + dt
    IN IF stuck
       THEN [w2 EXCEPT !.stuck_detection_timer = t,
                       !.movement_locked = IF t > STUCK_TIME THEN TRUE ELSE @]
       ELSE w2

\* _handle_ground_pound_movement that holds the player where it is
_handle_ground_pound_movement_still(w) ==
    [w EXCEPT !.vy = 0,
              !.vx = IF Abs(@) > 50 * Unit THEN Pct(@, 95) ELSE @]

\* Player._handle_ground_pound_movement
_handle_ground_pound_movement(w) ==
    [w EXCEPT !.vy = GROUND_POUND_SPEED * Unit,
              !.vx = IF Abs(@) > 50 * Unit THEN Pct(@, 95) ELSE @]

\* a faulty _handle_horizontal_movement that accelerates without the clamp
\* to the maximum speed
_handle_horizontal_movement_unclamped(w, move_left, move_right, dt) ==
    LET acceleration == IF w.is_on_ground THEN GROUND_ACCELERATION ELSE AIR_ACCELERATION
        friction == IF w.is_on_ground THEN GROUND_FRICTION_PCT ELSE AIR_FRICTION_PCT
        max_speed == IF w.is_on_ground THEN GROUND_MAX_SPEED ELSE AIR_MAX_SPEED
        w1 == [w EXCEPT !.max_speed = max_speed]
        w2 == IF move_left /\ ~(w.wall_jump_momentum_timer > 0 /\ w.wall_direction = 1)
              THEN [w1 EXCEPT !.vx = @ - acceleration * dt, !.facing_right = FALSE]
              ELSE IF move_right /\ ~(w.wall_jump_momentum_timer > 0 /\ w.wall_direction = -1)
              THEN [w1 EXCEPT !.vx = @ + acceleration * dt, !.facing_right = TRUE]
              ELSE [w1 EXCEPT !.vx = IF Abs(@) > 10 * Unit THEN Pct(@, friction) ELSE 0]
    IN IF Abs(w2.vx) > 20 * Unit THEN [w2 EXCEPT !.stuck_detection_timer = 0] ELSE w2

\* Player._handle_horizontal_movement
_handle_horizontal_movement(w, move_left, move_right, dt) ==
    LET acceleration == IF w.is_on_ground THEN GROUND_ACCELERATION ELSE AIR_ACCELERATION
        friction == IF w.is_on_ground THEN GROUND_FRICTION_PCT ELSE AIR_FRICTION_PCT
        max_speed == IF w.is_on_ground THEN GROUND_MAX_SPEED ELSE AIR_MAX_SPEED
        cap == max_speed * Unit
        w1 == [w EXCEPT !.max_speed = max_speed]
        w2 == IF move_left /\ ~(w.wall_jump_momentum_timer > 0 /\ w.wall_direction = 1)
              THEN [w1 EXCEPT !.vx = IF @ > -cap THEN Max(@ - acceleration * dt, -cap) ELSE @,
                              !.facing_right = FALSE]
              ELSE IF move_right /\ ~(w.wall_jump_momentum_timer > 0 /\ w.wall_direction = -1)
              THEN [w1 EXCEPT !.vx = IF @ < cap THEN Min(@ + acceleration * dt, cap) ELSE @,
                              !.facing_right = TRUE]
              ELSE [w1 EXCEPT !.vx = IF Abs(@) > 10 * Unit THEN Pct(@, friction) ELSE 0]
        w3 == [w2 EXCEPT !.ev_hm_vx = w2.vx,
                         !.ev_hm_idle_vx = IF Abs(w.vx) > 10 * Unit THEN Pct(w.vx, friction)
                                           ELSE 0,
                         !.ev_hm_timer = w.wall_jump_momentum_timer]
    IN IF Abs(w3.vx) > 20 * Unit THEN [w3 EXCEPT !.stuck_detection_timer = 0] ELSE w3

\* a faulty _handle_jumping whose jump does not clear is_on_ground, so that
\* the gravity of the same tick is skipped
_handle_jumping_staying_grounded(w, jump_pressed, jump_held, dt) ==
    LET w1 == IF jump_pressed THEN [w EXCEPT !.jump_buffer_timer = JUMP_BUFFER] ELSE w
        w2 == IF w1.is_on_ground
              THEN [w1 EXCEPT !.jump_count = 0, !.coyote_time_remaining = COYOTE_TIME]
              ELSE w1
        buffered == w2.jump_buffer_timer > 0
        kind == IF ~buffered THEN "none"
                ELSE IF w2.is_on_ground \/ w2.coyote_time_remaining > 0 THEN "full"
                ELSE IF w2.jump_count < MAX_JUMPS /\ ~w2.is_on_wall THEN "double"
                ELSE IF w2.is_on_wall /\ w2.wall_direction # 0 THEN "wall"
                ELSE "none"
        w3 == CASE kind = "full" ->
                     [w2 EXCEPT !.jump_count = 1, !.coyote_time_remaining = 0]
                [] kind = "double" ->
                     [w2 EXCEPT !.jump_count = @ + 1]
                [] kind = "wall" ->
                     [w2 EXCEPT !.vx = WALL_JUMP_X_FORCE * Unit * (-w2.wall_direction),
                                !.wall_jump_momentum_timer = WALL_JUMP_MOMENTUM_TIME,
                                !.jump_count = 1,
                                !.is_on_wall = FALSE]
                [] OTHER -> w2
        base == CASE kind = "full" -> JUMP_STRENGTH * Unit
                  [] kind = "double" -> DOUBLE_JUMP_STRENGTH * Unit
                  [] kind = "wall" -> WALL_JUMP_Y_FORCE * Unit
                  [] OTHER -> 0
        can_jump == kind # "none"
        bonus == can_jump /\ w3.dash_jump_window_timer > 0
        jump_velocity == IF bonus THEN Pct(base, 110) ELSE base
        w4 == IF bonus
              THEN [w3 EXCEPT !.vx = Pct(@, 130), !.dash_jump_window_timer = 0]
              ELSE w3
        w5 == IF can_jump
              THEN [w4 EXCEPT !.vy = jump_velocity,
                              !.jump_buffer_timer = 0,
                              !.jump_time_remaining = MIN_JUMP_TIME,
                              !.can_cut_jump = TRUE,
                              !.stuck_detection_timer = 0,
                              !.ev_jump = kind]
              ELSE w4
    IN IF ~jump_held /\ w5.can_cut_jump /\ w5.jump_time_remaining <= 0 /\ w5.vy < 0
       THEN [w5 EXCEPT !.vy = Pct(@, JUMP_CUT_PCT), !.can_cut_jump = FALSE]
       ELSE w5

\* _handle_jumping with an air jump that does not look at jump_count
_handle_jumping_uncounted(w, jump_pressed, jump_held, dt) ==
    LET w1 == IF jump_pressed THEN [w EXCEPT !.jump_buffer_timer = JUMP_BUFFER] ELSE w
        w2 == IF w1.is_on_ground
              THEN [w1 EXCEPT !.jump_count = 0, !.coyote_time_remaining = COYOTE_TIME]
              ELSE w1
        buffered == w2.jump_buffer_timer > 0
        kind == IF ~buffered THEN "none"
                ELSE IF w2.is_on_ground \/ w2.coyote_time_remaining > 0 THEN "full"
                ELSE IF ~w2.is_on_wall THEN "double"
                ELSE IF w2.is_on_wall /\ w2.wall_direction # 0 THEN "wall"
                ELSE "none"
        w3 == CASE kind = "full" ->
                     [w2 EXCEPT !.jump_count = 1, !.coyote_time_remaining = 0]
                [] kind = "double" ->
                     [w2 EXCEPT !.jump_count = @ + 1]
                [] kind = "wall" ->
                     [w2 EXCEPT !.vx = WALL_JUMP_X_FORCE * Unit * (-w2.wall_direction),
                                !.wall_jump_momentum_timer = WALL_JUMP_MOMENTUM_TIME,
                                !.jump_count = 1,
                                !.is_on_wall = FALSE]
                [] OTHER -> w2
        base == CASE kind = "full" -> JUMP_STRENGTH * Unit
                  [] kind = "double" -> DOUBLE_JUMP_STRENGTH * Unit
                  [] kind = "wall" -> WALL_JUMP_Y_FORCE * Unit
                  [] OTHER -> 0
        can_jump == kind # "none"
        bonus == can_jump /\ w3.dash_jump_window_timer > 0
        jump_velocity == IF bonus THEN Pct(base, 110) ELSE base
        w4 == IF bonus
              THEN [w3 EXCEPT !.vx = Pct(@, 130), !.dash_jump_window_timer = 0]
              ELSE w3
        w5 == IF can_jump
              THEN [w4 EXCEPT !.vy = jump_velocity,
                              !.jump_buffer_timer = 0,
                              !.jump_time_remaining = MIN_JUMP_TIME,
                              !.can_cut_jump = TRUE,
                              !.is_on_ground = FALSE,
                              !.stuck_detection_timer = 0,
                              !.ev_jump = kind]
              ELSE w4
    IN IF ~jump_held /\ w5.can_cut_jump /\ w5.jump_time_remaining <= 0 /\ w5.vy < 0
       THEN [w5 EXCEPT !.vy = Pct(@, JUMP_CUT_PCT), !.can_cut_jump = FALSE]
       ELSE w5

\* _handle_jumping that only jumps in the tick of the press
_handle_jumping_unbuffered(w, jump_pressed, jump_held, dt) ==
    LET w1 == IF jump_pressed THEN [w EXCEPT !.jump_buffer_timer = JUMP_BUFFER] ELSE w
        w2 == IF w1.is_on_ground
              THEN [w1 EXCEPT !.jump_count = 0, !.coyote_time_remaining = COYOTE_TIME]
              ELSE w1
        buffered == jump_pressed
        kind == IF ~buffered THEN "none"
                ELSE IF w2.is_on_ground \/ w2.coyote_time_remaining > 0 THEN "full"
                ELSE IF w2.jump_count < MAX_JUMPS /\ ~w2.is_on_wall THEN "double"
                ELSE IF w2.is_on_wall /\ w2.wall_direction # 0 THEN "wall"
                ELSE "none"
        w3 == CASE kind = "full" ->
                     [w2 EXCEPT !.jump_count = 1, !.coyote_time_remaining = 0]
                [] kind = "double" ->
                     [w2 EXCEPT !.jump_count = @ + 1]
                [] kind = "wall" ->
                     [w2 EXCEPT !.vx = WALL_JUMP_X_FORCE * Unit * (-w2.wall_direction),
                                !.wall_jump_momentum_timer = WALL_JUMP_MOMENTUM_TIME,
                                !.jump_count = 1,
                                !.is_on_wall = FALSE]
                [] OTHER -> w2
        base == CASE kind = "full" -> JUMP_STRENGTH * Unit
                  [] kind = "double" -> DOUBLE_JUMP_STRENGTH * Unit
                  [] kind = "wall" -> WALL_JUMP_Y_FORCE * Unit
                  [] OTHER -> 0
        can_jump == kind # "none"
        bonus == can_jump /\ w3.dash_jump_window_timer > 0
        jump_velocity == IF bonus THEN Pct(base, 110) ELSE base
        w4 == IF bonus
              THEN [w3 EXCEPT !.vx = Pct(@, 130), !.dash_jump_window_timer = 0]
              ELSE w3
        w5 == IF can_jump
              THEN [w4 EXCEPT !.vy = jump_velocity,
                              !.jump_buffer_timer = 0,
                              !.jump_time_remaining = MIN_JUMP_TIME,
                              !.can_cut_jump = TRUE,
                              !.is_on_ground = FALSE,
                              !.stuck_detection_timer = 0,
                              !.ev_jump = kind]
              ELSE w4
    IN IF ~jump_held /\ w5.can_cut_jump /\ w5.jump_time_remaining <= 0 /\ w5.vy < 0
       THEN [w5 EXCEPT !.vy = Pct(@, JUMP_CUT_PCT), !.can_cut_jump = FALSE]
       ELSE w5

\* a faulty _handle_jumping whose full jump leaves the coyote window open
_handle_jumping_open_window(w, jump_pressed, jump_held, dt) ==
    LET w1 == IF jump_pressed THEN [w EXCEPT !.jump_buffer_timer = JUMP_BUFFER] ELSE w
        w2 == IF w1.is_on_ground
              THEN [w1 EXCEPT !.jump_count = 0, !.coyote_time_remaining = COYOTE_TIME]
              ELSE w1
        buffered == w2.jump_buffer_timer > 0
        kind == IF ~buffered THEN "none"
                ELSE IF w2.is_on_ground \/ w2.coyote_time_remaining > 0 THEN "full"
                ELSE IF w2.jump_count < MAX_JUMPS /\ ~w2.is_on_wall THEN "double"
                ELSE IF w2.is_on_wall /\ w2.wall_direction # 0 THEN "wall"
                ELSE "none"
        w3 == CASE kind = "full" ->
                     [w2 EXCEPT !.jump_count = 1]
                [] kind = "double" ->
                     [w2 EXCEPT !.jump_count = @ + 1]
                [] kind = "wall" ->
                     [w2 EXCEPT !.vx = WALL_JUMP_X_FORCE * Unit * (-w2.wall_direction),
                                !.wall_jump_momentum_timer = WALL_JUMP_MOMENTUM_TIME,
                                !.jump_count = 1,
                                !.is_on_wall = FALSE]
                [] OTHER -> w2
        base == CASE kind = "full" -> JUMP_STRENGTH * Unit
                  [] kind = "double" -> DOUBLE_JUMP_STRENGTH * Unit
                  [] kind = "wall" -> WALL_JUMP_Y_FORCE * Unit
                  [] OTHER -> 0
        can_jump == kind # "none"
        bonus == can_jump /\ w3.dash_jump_window_timer > 0
        jump_velocity == IF bonus THEN Pct(base, 110) ELSE base
        w4 == IF bonus
              THEN [w3 EXCEPT !.vx = Pct(@, 130), !.dash_jump_window_timer = 0]
              ELSE w3
        w5 == IF can_jump
              THEN [w4 EXCEPT !.vy = jump_velocity,
                              !.jump_buffer_timer = 0,
                              !.jump_time_remaining = MIN_JUMP_TIME,
                              !.can_cut_jump = TRUE,
                              !.is_on_ground = FALSE,
                              !.stuck_detection_timer = 0,
                              !.ev_jump = kind]
              ELSE w4
    IN IF ~jump_held /\ w5.can_cut_jump /\ w5.jump_time_remaining <= 0 /\ w5.vy < 0
       THEN [w5 EXCEPT !.vy = Pct(@, JUMP_CUT_PCT), !.can_cut_jump = FALSE]
       ELSE w5

\* Player._handle_jumping
_handle_jumping(w, jump_pressed, jump_held, dt) ==
    LET w1 == IF jump_pressed THEN [w EXCEPT !.jump_buffer_timer = JUMP_BUFFER] ELSE w
        w2 == IF w1.is_on_ground
              THEN [w1 EXCEPT !.jump_count = 0, !.coyote_time_remaining = COYOTE_TIME]
              ELSE w1
        buffered == w2.jump_buffer_timer > 0
        kind == IF ~buffered THEN "none"
                ELSE IF w2.is_on_ground \/ w2.coyote_time_remaining > 0 THEN "full"
                ELSE IF w2.jump_count < MAX_JUMPS /\ ~w2.is_on_wall THEN "double"
                ELSE IF w2.is_on_wall /\ w2.wall_direction # 0 THEN "wall"
                ELSE "none"
        w3 == CASE kind = "full" ->
                     [w2 EXCEPT !.jump_count = 1, !.coyote_time_remaining = 0]
                [] kind = "double" ->
                     [w2 EXCEPT !.jump_count = @ + 1]
                [] kind = "wall" ->
                     [w2 EXCEPT !.vx = WALL_JUMP_X_FORCE * Unit * (-w2.wall_direction),
                                !.wall_jump_momentum_timer = WALL_JUMP_MOMENTUM_TIME,
                                !.jump_count = 1,
                                !.is_on_wall = FALSE,
                                !.ev_jump_wall = w2.wall_direction]
                [] OTHER -> w2
        base == CASE kind = "full" -> JUMP_STRENGTH * Unit
                  [] kind = "double" -> DOUBLE_JUMP_STRENGTH * Unit
                  [] kind = "wall" -> WALL_JUMP_Y_FORCE * Unit
                  [] OTHER -> 0
        can_jump == kind # "none"
        bonus == can_jump /\ w3.dash_jump_window_timer > 0
        jump_velocity == IF bonus THEN Pct(base, 110) ELSE base
        w4 == IF bonus
              THEN [w3 EXCEPT !.vx = Pct(@, 130), !.dash_jump_window_timer = 0]
              ELSE w3
        w5 == IF can_jump
              THEN [w4 EXCEPT !.vy = jump_velocity,
                              !.jump_buffer_timer = 0,
                              !.jump_time_remaining = MIN_JUMP_TIME,
                              !.can_cut_jump = TRUE,
                              !.is_on_ground = FALSE,
                              !.stuck_detection_timer = 0,
                              !.ev_jump = kind]
              ELSE w4
    IN IF ~jump_held /\ w5.can_cut_jump /\ w5.jump_time_remaining <= 0 /\ w5.vy < 0
       THEN [w5 EXCEPT !.vy = Pct(@, JUMP_CUT_PCT), !.can_cut_jump = FALSE,
                       !.ev_cut = TRUE]
       ELSE [w5 EXCEPT !.ev_cut_early = /\ ~jump_held /\ w5.can_cut_jump
                                        /\ w5.jump_time_remaining > 0 /\ w5.vy < 0]

\* _apply_gravity that adds nothing
_apply_gravity_off(w, dt) == w

\* _apply_gravity without the terminal speed
_apply_gravity_uncapped(w, dt) ==
    IF w.is_on_ground THEN w
    ELSE [w EXCEPT !.vy = IF w.is_on_wall /\ w.vy > 0
                          THEN Min(w.vy, WALL_SLIDE_SPEED * Unit)
                          ELSE w.vy + GRAVITY * dt]

\* Player._apply_gravity
_apply_gravity(w, dt) ==
    IF w.is_on_ground THEN w
    ELSE LET vy1 == IF w.is_on_wall /\ w.vy > 0
                    THEN Min(w.vy, WALL_SLIDE_SPEED * Unit)
                    ELSE w.vy + GRAVITY * dt
         IN [w EXCEPT !.vy = Min(vy1, MAX_FALL_SPEED * Unit)]

\* _start_dash that leaves an active ground pound alone
_start_dash_keeping_pound(w, left, right, up, down) ==
    LET ix == IF right THEN 1 ELSE IF left THEN -1 ELSE 0
        iy == IF down THEN 1 ELSE IF up THEN -1 ELSE 0
        dash_x == IF ix = 0 /\ iy = 0 THEN (IF w.facing_right THEN 1 ELSE -1) ELSE ix
        dash_y == iy
        diagonal == dash_x # 0 /\ dash_y # 0
    IN [w EXCEPT !.dash_dx = dash_x, !.dash_dy = dash_y,
                 !.vx = DashComponent(dash_x, diagonal),
                 !.vy = DashComponent(dash_y, diagonal),
                 !.dash_timer = DASH_DURATION,
                 !.dash_cooldown_timer = DASH_COOLDOWN,
                 !.is_invincible = TRUE,
                 !.invincibility_timer = DASH_INVINCIBILITY_TIME,
                 !.dash_jump_window_timer = DASH_JUMP_WINDOW,
                 !.movement_locked = FALSE,
                 !.stuck_detection_timer = 0,
                 !.ev_dash_start = TRUE,
                 !.ev_dash_timer = w.dash_timer,
                 !.ev_dash_cooldown = w.dash_cooldown_timer]

\* Player._start_dash
_start_dash(w, left, right, up, down) ==
    LET ix == IF right THEN 1 ELSE IF left THEN -1 ELSE 0
        iy == IF down THEN 1 ELSE IF up THEN -1 ELSE 0
        dash_x == IF ix = 0 /\ iy = 0 THEN (IF w.facing_right THEN 1 ELSE -1) ELSE ix
        dash_y == iy
        diagonal == dash_x # 0 /\ dash_y # 0
    IN [w EXCEPT !.dash_dx = dash_x, !.dash_dy = dash_y,
                 !.vx = DashComponent(dash_x, diagonal),
                 !.vy = DashComponent(dash_y, diagonal),
                 !.dash_timer = DASH_DURATION,
                 !.dash_cooldown_timer = DASH_COOLDOWN,
                 !.is_invincible = TRUE,
                 !.invincibility_timer = DASH_INVINCIBILITY_TIME,
                 !.dash_jump_window_timer = DASH_JUMP_WINDOW,
                 !.is_ground_pounding = FALSE,
                 !.movement_locked = FALSE,
                 !.stuck_detection_timer = 0,
                 !.ev_dash_start = TRUE,
                 !.ev_dash_timer = w.dash_timer,
                 !.ev_dash_cooldown = w.dash_cooldown_timer]

\* _handle_dash_movement that lets the player coast
_handle_dash_movement_coasting(w) == w

\* Player._handle_dash_movement
_handle_dash_movement(w) ==
    LET diagonal == w.dash_dx # 0 /\ w.dash_dy # 0
    IN [w EXCEPT !.vx = DashComponent(w.dash_dx, diagonal),
                 !.vy = DashComponent(w.dash_dy, diagonal)]

\* Player._handle_ledge_grab_movement
_handle_ledge_grab_movement(w, move_up, move_down, dt) ==
    LET w1 == [w EXCEPT !.vx = 0, !.vy = 0]
    IN IF move_up
       THEN [w1 EXCEPT !.y = @ - LEDGE_CLIMB_SPEED * dt,
                       !.is_grabbing_ledge = FALSE,
                       !.ledge_grab_timer = LEDGE_RELEASE_TIME]
       ELSE IF move_down
       THEN [w1 EXCEPT !.is_grabbing_ledge = FALSE,
                       !.ledge_grab_timer = LEDGE_RELEASE_TIME]
       ELSE w1

\* the normal-movement branch of _update_movement_and_physics
NormalMovement(w, inp, dt) ==
    _apply_gravity(
        _handle_jumping(
            _handle_horizontal_movement([w EXCEPT !.ev_normal = TRUE],
                                        inp.left, inp.right, dt),
            inp.jump_pressed, inp.jump_held, dt),
        dt)

\* Player._update_movement_and_physics
_update_movement_and_physics(w, dt, inp) ==
    LET w1 == IF w.dash_timer > 0 THEN _handle_dash_movement(w)
              ELSE IF w.is_ground_pounding THEN _handle_ground_pound_movement(w)
              ELSE IF w.is_grabbing_ledge /\ w.ledge_grab_timer <= 0
                   THEN _handle_ledge_grab_movement(w, inp.up, inp.down, dt)
              ELSE NormalMovement(w, inp, dt)
    IN IF inp.dash_pressed /\ w1.dash_cooldown_timer <= 0
       THEN _start_dash(w1, inp.left, inp.right, inp.up, inp.down)
       ELSE w1

\* Player._simple_ledge_check, called on landing on platform pl
_simple_ledge_check(w, pl) ==
    LET ledge_check_distance == RECT_WIDTH \div 2 + 8
        ledge_check_x == IF w.facing_right
                         THEN w.x + ledge_check_distance * Unit
                         ELSE w.x - ledge_check_distance * Unit
    IN IF \/ w.facing_right /\ ledge_check_x > (pl.l + pl.w + 3) * Unit
          \/ ~w.facing_right /\ ledge_check_x < (pl.l - 3) * Unit
       THEN [w EXCEPT !.is_grabbing_ledge = TRUE, !.is_on_ground = FALSE,
                      !.ev_ledge = TRUE]
       ELSE w

\* the horizontal pass with the body put flush against a left face
CollideHorizontal_flush(w, plats, dt) ==
    IF Abs(w.vx) * 10 <= Unit THEN w
    ELSE
    LET new_x == (w.x + Move(w.vx, dt)) % (WORLD_WIDTH * Unit)
        i == FirstHit(plats, BodyRect(new_x, w.y))
    IN IF i = 0 THEN [w EXCEPT !.x = new_x]
       ELSE IF w.vx > 0
       THEN [w EXCEPT !.x = (plats[i].l - RECT_WIDTH \div 2) * Unit,
                      !.ev_wall = i, !.ev_wall_vx = w.vx,
                      !.vx = IF w.dash_timer <= 0 THEN 0 ELSE @,
                      !.ev_wall_vx_out = IF w.dash_timer <= 0 THEN 0 ELSE w.vx,
                      !.is_on_wall = TRUE,
                      !.wall_direction = 1]
       ELSE [w EXCEPT !.ev_wall = i, !.ev_wall_vx = w.vx,
                      !.x = (plats[i].l + plats[i].w + RECT_WIDTH \div 2
                             + COLLISION_TOLERANCE) * Unit,
                      !.vx = IF w.dash_timer <= 0 THEN 0 ELSE @,
                      !.ev_wall_vx_out = IF w.dash_timer <= 0 THEN 0 ELSE w.vx,
                      !.is_on_wall = TRUE,
                      !.wall_direction = -1]

\* _handle_collisions_improved, "HORIZONTAL MOVEMENT"
CollideHorizontal(w, plats, dt) ==
    IF Abs(w.vx) * 10 <= Unit THEN w
    ELSE
    LET new_x == (w.x + Move(w.vx, dt)) % (WORLD_WIDTH * Unit)
        i == FirstHit(plats, BodyRect(new_x, w.y))
    IN IF i = 0 THEN [w EXCEPT !.x = new_x]
       ELSE IF w.vx > 0
       THEN [w EXCEPT !.x = (plats[i].l - RECT_WIDTH \div 2 - COLLISION_TOLERANCE) * Unit,
                      !.ev_wall = i, !.ev_wall_vx = w.vx,
                      !.vx = IF w.dash_timer <= 0 THEN 0 ELSE @,
                      !.ev_wall_vx_out = IF w.dash_timer <= 0 THEN 0 ELSE w.vx,
                      !.is_on_wall = TRUE,
                      !.wall_direction = 1]
       ELSE [w EXCEPT !.ev_wall = i, !.ev_wall_vx = w.vx,
                      !.x = (plats[i].l + plats[i].w + RECT_WIDTH \div 2
                             + COLLISION_TOLERANCE) * Unit,
                      !.vx = IF w.dash_timer <= 0 THEN 0 ELSE @,
                      !.ev_wall_vx_out = IF w.dash_timer <= 0 THEN 0 ELSE w.vx,
                      !.is_on_wall = TRUE,
                      !.wall_direction = -1]

\* the landing branch of the vertical pass, on platform pl
LandOn(w, pl, camera) ==
    LET w1 == [w EXCEPT !.y = (pl.t - RECT_HEIGHT \div 2) * Unit]
        w2 == IF w1.is_ground_pounding
              THEN _handle_ground_pound_impact(w1, camera, "vertical")
              ELSE [w1 EXCEPT !.vy = 0]
        w3 == [w2 EXCEPT !.is_on_ground = TRUE, !.stuck_detection_timer = 0]
    IN IF ~w3.was_on_ground /\ ~w3.is_ground_pounding /\ w3.ledge_grab_timer <= 0
       THEN _simple_ledge_check(w3, pl)
       ELSE w3

\* _handle_collisions_improved, "VERTICAL MOVEMENT WITH GROUND POUND DETECTION"
CollideVertical(w, plats, dt, camera) ==
    IF Abs(w.vy) * 10 <= Unit THEN w
    ELSE
    LET new_y == w.y + Move(w.vy, dt)
        i == FirstHit(plats, BodyRect(w.x, new_y))
    IN IF i = 0 THEN [w EXCEPT !.y = new_y]
       ELSE IF w.vy > 0 THEN LandOn(w, plats[i], camera)
       ELSE [w EXCEPT !.y = (plats[i].t + plats[i].h + RECT_HEIGHT \div 2) * Unit,
                      !.vy = 0,
                      !.can_cut_jump = FALSE]

\* a faulty ground sensor that hands no camera to the impact
GroundSensor_quiet(w, plats, camera) ==
    IF w.is_on_ground THEN w
    ELSE
    LET ground_check == Rect(Px(w.x - (RECT_WIDTH \div 2) * Unit),
                             Px(w.y + (RECT_HEIGHT \div 2) * Unit),
                             RECT_WIDTH, 3)
        i == FirstHit(plats, ground_check)
        ground_y == (plats[i].t - RECT_HEIGHT \div 2) * Unit
    IN IF i = 0 THEN w
       ELSE IF Abs(w.y - ground_y) > COLLISION_TOLERANCE * Unit THEN w
       ELSE LET w1 == [w EXCEPT !.y = ground_y]
                w2 == IF w1.is_ground_pounding
                      THEN _handle_ground_pound_impact(w1, FALSE, "sensor")
                      ELSE [w1 EXCEPT !.vy = 0]
            IN [w2 EXCEPT !.is_on_ground = TRUE]

\* a faulty ground sensor that finds nothing
GroundSensor_off(w, plats, camera) == w

\* _handle_collisions_improved, "GROUND STATE UPDATE": the 3 px sensor below
\* the body, tried against the first platform it touches only
GroundSensor(w, plats, camera) ==
    IF w.is_on_ground THEN w
    ELSE
    LET ground_check == Rect(Px(w.x - (RECT_WIDTH \div 2) * Unit),
                             Px(w.y + (RECT_HEIGHT \div 2) * Unit),
                             RECT_WIDTH, 3)
        i == FirstHit(plats, ground_check)
        ground_y == (plats[i].t - RECT_HEIGHT \div 2) * Unit
    IN IF i = 0 THEN w
       ELSE IF Abs(w.y - ground_y) > COLLISION_TOLERANCE * Unit THEN w
       ELSE LET w1 == [w EXCEPT !.y = ground_y]
                w2 == IF w1.is_ground_pounding
                      THEN _handle_ground_pound_impact(w1, camera, "sensor")
                      ELSE [w1 EXCEPT !.vy = 0]
            IN [w2 EXCEPT !.is_on_ground = TRUE]

\* the four overlaps of _fix_wall_penetration and their minimum
Overlaps(r, pl) ==
    [ left |-> r.l + r.w - pl.l,
      right |-> pl.l + pl.w - r.l,
      top |-> r.t + r.h - pl.t,
      bottom |-> pl.t + pl.h - r.t ]

MinOverlap(o) == Min(Min(o.left, o.right), Min(o.top, o.bottom))

\* first platform the box collides with by more than MAX_PENETRATION, 0 if none
RECURSIVE FirstDeep(_, _, _)
FirstDeep(plats, r, i) ==
    IF i > Len(plats) THEN 0
    ELSE IF CollideRect(r, plats[i])
            /\ MinOverlap(Overlaps(r, plats[i])) > MAX_PENETRATION THEN i
    ELSE FirstDeep(plats, r, i + 1)

\* Player._fix_wall_penetration
_fix_wall_penetration(w, plats) ==
    LET r == BodyRect(w.x, w.y)
        i == FirstDeep(plats, r, 1)
        pl == plats[i]
        o == Overlaps(r, pl)
        m == MinOverlap(o)
    IN IF i = 0 THEN w
       ELSE IF m = o.left
       THEN [w EXCEPT !.x = (pl.l - RECT_WIDTH \div 2 - 1) * Unit,
                      !.vx = Min(0, @)]
       ELSE IF m = o.right
       THEN [w EXCEPT !.x = (pl.l + pl.w + RECT_WIDTH \div 2 + 1) * Unit,
                      !.vx = Max(0, @)]
       ELSE IF m = o.top
       THEN LET w1 == [w EXCEPT !.y = (pl.t - RECT_HEIGHT \div 2 - 1) * Unit]
                w2 == IF w1.is_ground_pounding /\ w1.vy > 0
                      THEN _handle_ground_pound_impact(w1, FALSE, "penetration")
                      ELSE [w1 EXCEPT !.vy = Min(0, @)]
            IN [w2 EXCEPT !.is_on_ground = TRUE]
       ELSE [w EXCEPT !.y = (pl.t + pl.h + RECT_HEIGHT \div 2 + 1) * Unit,
                      !.vy = Max(0, @),
                      !.can_cut_jump = FALSE]

\* Player._handle_collisions_improved
_handle_collisions_improved(w, plats, dt, camera) ==
    LET w0 == [w EXCEPT !.was_on_ground = w.is_on_ground,
                        !.is_on_ground = FALSE,
                        !.is_on_wall = FALSE,
                        !.wall_direction = 0]
    IN _fix_wall_penetration(
           GroundSensor(
               CollideVertical(CollideHorizontal(w0, plats, dt), plats, dt, camera),
               plats, camera),
           plats)

\* the part of Player.update after the respawn check
UpdateBody(w, dt, inp, plats, camera) ==
    LET w1 == [w EXCEPT !.was_on_ground = w.is_on_ground]
        w2 == _process_input(w1, inp, plats)
        w3 == _update_timers(w2, dt)
        w4 == IF ~w3.movement_locked
              THEN Only({ [m EXCEPT !.ev_dash_move = w3.dash_timer > 0,
                                    !.ev_int_vx = m.vx, !.ev_int_vy = m.vy] :
                          m \in {_update_movement_and_physics(w3, dt, inp)} })
              ELSE w3
        w5 == _handle_collisions_improved(w4, plats, dt, camera)
    IN [w5 EXCEPT !.rect_cx = Px(w5.x), !.rect_cy = Px(w5.y)]

\* Player.update(delta_time, input_manager, platforms, enemies, grenades, camera)
update(w, dt, inp, plats, camera) ==
    LET w1 == [w EXCEPT !.x = @ % (WORLD_WIDTH * Unit)]
    IN IF w1.y > RESPAWN_Y_THRESHOLD * Unit THEN respawn(w1)
       ELSE UpdateBody(w1, dt, inp, plats, camera)

\* take_damage without the invincibility test
take_damage_always(w, damage_amount) ==
    LET w1 == [w EXCEPT !.health = Max(0, @ - damage_amount),
                        !.is_invincible = TRUE,
                        !.invincibility_timer = DAMAGE_INVINCIBILITY_TIME]
    IN IF w1.health <= 0 THEN respawn(w1) ELSE w1

\* a faulty take_damage that leaves the player at health 0 without respawning
take_damage_no_respawn(w, damage_amount) ==
    IF w.is_invincible THEN w
    ELSE [w EXCEPT !.health = Max(0, @ - damage_amount),
                   !.is_invincible = TRUE,
                   !.invincibility_timer = DAMAGE_INVINCIBILITY_TIME]

\* Player.take_damage
take_damage(w, damage_amount) ==
    IF w.is_invincible THEN w
    ELSE LET w1 == [w EXCEPT !.health = Max(0, @ - damage_amount),
                             !.is_invincible = TRUE,
                             !.invincibility_timer = DAMAGE_INVINCIBILITY_TIME]
         IN IF w1.health <= 0 THEN respawn(w1) ELSE w1

\* --------------------------------------- grenades, bullets and enemies
\* GameConfig: grenade physics (friction and bounce in percent), the
\* explosion animation in ms, bullets, and the health an Enemy starts with
GRENADE_DAMAGE == 75
GRENADE_EXPLOSION_RADIUS == 85
GRENADE_FRICTION_PCT == 70
GRENADE_BOUNCE_FACTOR_PCT == 50
GRENADE_GRAVITY == 500
EXPLOSION_ANIMATION_DURATION == 800
BULLET_SPEED == 220
BULLET_LIFETIME == 3500
ENEMY_HEALTH == 50
\* Grenade.update: velocity.x *= 0.8 when it bounces off a top, in percent
GRENADE_TOP_BOUNCE_PCT == 80
\* half the side of Grenade.collision_rect (12 x 12), of Bullet.collision_rect
\* (6 x 6) and of Enemy.collision_rect (32 x 32)
GRENADE_HALF == 6
BULLET_HALF == 3
ENEMY_HALF == 16
\* update_game_logic: the damage of a dash attack
DASH_ATTACK_DAMAGE == 50


\* Grenade.collision_rect, Bullet.collision_rect, Enemy.collision_rect and
\* Player.collision_rect as pygame.Rect around an integer centre
GrenadeRect(g) ==
    Rect(Px(g.x) - GRENADE_HALF, Px(g.y) - GRENADE_HALF, 2 * GRENADE_HALF, 2 * GRENADE_HALF)

BulletRect(b) ==
    Rect(Px(b.x) - BULLET_HALF, Px(b.y) - BULLET_HALF, 2 * BULLET_HALF, 2 * BULLET_HALF)

EnemyRect(e) ==
    Rect(Px(e.x) - ENEMY_HALF, Px(e.y) - ENEMY_HALF, 2 * ENEMY_HALF, 2 * ENEMY_HALF)

PlayerRect(w) ==
    Rect(w.rect_cx - RECT_WIDTH \div 2, w.rect_cy - RECT_HEIGHT \div 2,
         RECT_WIDTH, RECT_HEIGHT)

\* Grenade.explode
explode(g) == [g EXCEPT !.has_exploded = TRUE, !.explosion_animation_timer = 0]

\* Grenade.update after the fuse test: gravity, movement, friction on a
\* platform under the grenade, and the bounce off the first platform hit
GrenadeFlight(g, dt, plats) ==
    Only(
        { LET i == FirstHit(plats, GrenadeRect(g3))
          IN IF i = 0 THEN g3
             ELSE IF g.y <= plats[i].t * Unit /\ g3.vy > 0
             THEN [g3 EXCEPT !.y = (plats[i].t - GRENADE_HALF) * Unit,
                             !.vy = Pct(-g3.vy, GRENADE_BOUNCE_FACTOR_PCT),
                             !.vx = Pct(@, GRENADE_TOP_BOUNCE_PCT)]
             ELSE IF g.x <= plats[i].l * Unit /\ g3.vx > 0
             THEN [g3 EXCEPT !.x = (plats[i].l - GRENADE_HALF) * Unit,
                             !.vx = Pct(-g3.vx, GRENADE_BOUNCE_FACTOR_PCT)]
             ELSE IF g.x >= (plats[i].l + plats[i].w) * Unit /\ g3.vx < 0
             THEN [g3 EXCEPT !.x = (plats[i].l + plats[i].w + GRENADE_HALF) * Unit,
                             !.vx = Pct(-g3.vx, GRENADE_BOUNCE_FACTOR_PCT)]
             ELSE g3 :
     g3 \in
        { IF FirstHit(plats, Rect(Px(g2.x) - GRENADE_HALF, Px(g2.y) + 5,
                                  2 * GRENADE_HALF, 2)) # 0
          THEN [g2 EXCEPT !.vx = Pct(@, GRENADE_FRICTION_PCT)]
          ELSE g2 :
     g2 \in
        { [g1 EXCEPT !.x = (@ + Move(g1.vx, dt)) % (WORLD_WIDTH * Unit),
                     !.y = @ + Move(g1.vy, dt)] :
     g1 \in
        { [g EXCEPT !.vy = @ + GRENADE_GRAVITY * dt] } } } })

\* Grenade.update(delta_time, platforms): the grenade afterwards and the
\* value returned (the explosion animation is over)
Grenade_update(g, dt, plats) ==
    IF g.has_exploded
    THEN [ g |-> [g EXCEPT !.explosion_animation_timer = @ + dt],
           remove |-> g.explosion_animation_timer + dt > EXPLOSION_ANIMATION_DURATION ]
    ELSE IF g.fuse_time_remaining - dt <= 0
    THEN [ g |-> explode([g EXCEPT !.fuse_time_remaining = @ - dt]), remove |-> FALSE ]
    ELSE [ g |-> GrenadeFlight([g EXCEPT !.fuse_time_remaining = @ - dt], dt, plats),
           remove |-> FALSE ]

\* Bullet.__init__ for a shot from (sx, sy), in thousandths of a pixel, in
\* direction (dx, dy), a unit vector in thousandths.  age is not a field of
\* the bullet: it is the update time the bullet has been through (history).
NewBullet(sx, sy, dx, dy) ==
    [ x |-> sx, y |-> sy,
      vx |-> dx * BULLET_SPEED, vy |-> dy * BULLET_SPEED,
      lifetime_remaining |-> BULLET_LIFETIME,
      age |-> 0 ]

\* the bullets the enemies' updates add in a call that took the player to
\* w: none, or for aim = <<dx, dy, d>> the shot of an enemy that sees the
\* player from d pixels away, in direction (dx, dy) from it
Fired(w, aim) ==
    IF aim = << >> THEN << >>
    ELSE << NewBullet(w.x - aim[1] * aim[3], w.y - aim[2] * aim[3], aim[1], aim[2]) >>

\* a faulty Bullet.update that tests the lifetime without counting it down
Bullet_update_ageless(b, dt) ==
    IF b.lifetime_remaining <= 0
    THEN [ b |-> [b EXCEPT !.age = @ + dt], alive |-> FALSE ]
    ELSE [ b |-> [b EXCEPT !.age = @ + dt,
                           !.x = (@ + Move(b.vx, dt)) % (WORLD_WIDTH * Unit),
                           !.y = @ + Move(b.vy, dt)],
           alive |-> TRUE ]

\* Bullet.update(delta_time): the bullet afterwards and the value returned
Bullet_update(b, dt) ==
    IF b.lifetime_remaining - dt <= 0
    THEN [ b |-> [b EXCEPT !.lifetime_remaining = @ - dt, !.age = @ + dt],
           alive |-> FALSE ]
    ELSE [ b |-> [b EXCEPT !.lifetime_remaining = @ - dt,
                           !.age = @ + dt,
                           !.x = (@ + Move(b.vx, dt)) % (WORLD_WIDTH * Unit),
                           !.y = @ + Move(b.vy, dt)],
           alive |-> TRUE ]

\* Enemy.__init__ as far as the game logic reads it, and the enemies of
\* _create_enemy_encounters in list order
NewEnemy(ex, ey) == [ x |-> ex * Unit, y |-> ey * Unit, health |-> ENEMY_HEALTH ]

Enemies ==
    << NewEnemy(350, 570), NewEnemy(950, 570), NewEnemy(1350, 570),
       NewEnemy(350, 470), NewEnemy(950, 370),
       NewEnemy(500, 300), NewEnemy(1000, 250), NewEnemy(1500, 350),
       NewEnemy(200, 180), NewEnemy(1800, 200) >>

\* (enemy.position - explosion_center).length() <= explosion_radius, in
\* hundredths of a pixel
InRadius(e, g) ==
    LET dx == Quot(e.x - g.x, 10)
        dy == Quot(e.y - g.y, 10)
        rr == GRENADE_EXPLOSION_RADIUS * 100
    IN Abs(dx) <= rr /\ Abs(dy) <= rr /\ dx * dx + dy * dy <= rr * rr

\* update_game_logic, the explosion of grenade g: Enemy.take_damage for the
\* enemies within the radius and the removal of those left without health
ExplosionDamage(es, g) ==
    SelectSeq([i \in 1..Len(es) |->
                  IF InRadius(es[i], g)
                  THEN [es[i] EXCEPT !.health = @ - GRENADE_DAMAGE] ELSE es[i]],
              LAMBDA e : e.health > 0)

\* update_game_logic, "Player dash attack vs enemies"
DashAttack(es, w) ==
    IF w.dash_timer <= 0 THEN es
    ELSE SelectSeq([i \in 1..Len(es) |->
                       IF CollideRect(PlayerRect(w), EnemyRect(es[i]))
                       THEN [es[i] EXCEPT !.health = @ - DASH_ATTACK_DAMAGE] ELSE es[i]],
                   LAMBDA e : e.health > 0)

\* update_game_logic, the bullet loop from bullet i on.  a holds the
\* player, the bullets still in play and those removed, with the reason
\* and the player's health as the bullet found it
RECURSIVE BulletLoop(_, _, _, _, _)
BulletLoop(bs, i, a, dt, plats) ==
    IF i > Len(bs) THEN a
    ELSE BulletLoop(bs, i + 1, Only(
        { IF ~u.alive
          THEN [v EXCEPT !.gone = Append(@, [b |-> u.b, why |-> "lifetime",
                                             health |-> v.w.health])]
          ELSE IF CollideRect(BulletRect(u.b), PlayerRect(v.w)) /\ ~v.w.is_invincible
          THEN [v EXCEPT !.w = take_damage(v.w, BULLET_DAMAGE),
                         !.gone = Append(@, [b |-> u.b, why |-> "player",
                                             health |-> v.w.health])]
          ELSE IF FirstHit(plats, BulletRect(u.b)) # 0
          THEN [v EXCEPT !.gone = Append(@, [b |-> u.b, why |-> "platform",
                                             health |-> v.w.health])]
          ELSE [v EXCEPT !.bullets = Append(@, u.b)] :
     u \in {Bullet_update(bs[i], dt)}, v \in {a} }), dt, plats)

\* update_game_logic, the grenade loop from grenade i on.  a holds the
\* enemies, the grenades kept and those removed, each with the number of
\* times its radius damage was evaluated
RECURSIVE GrenadeLoop(_, _, _, _, _)
GrenadeLoop(gs, i, a, dt, plats) ==
    IF i > Len(gs) THEN a
    ELSE GrenadeLoop(gs, i + 1, Only(
        { IF u.remove
          THEN IF u.g.has_exploded
               THEN [v EXCEPT !.enemies = ExplosionDamage(@, u.g),
                              !.gone = Append(@, [g |-> u.g, evaluations |-> 1])]
               ELSE [v EXCEPT !.gone = Append(@, [g |-> u.g, evaluations |-> 0])]
          ELSE IF u.g.y > RESPAWN_Y_THRESHOLD * Unit
          THEN [v EXCEPT !.gone = Append(@, [g |-> u.g, evaluations |-> 0])]
          ELSE [v EXCEPT !.grenades = Append(@, u.g)] :
     u \in {Grenade_update(gs[i], dt, plats)}, v \in {a} }), dt, plats)

\* PlatformerGame.update_game_logic(delta_time) after Player.update has
\* taken the player to w and thrown w.ev_thrown.  fired are the bullets the
\* enemies' updates add in this call; what else Enemy.update does (it
\* wanders at random and closes in on the player) is left out, the enemies
\* stand where they were put.  The steps, innermost first: the bullet
\* loop, the grenade loop, the dash attack.
update_game_logic(w, gs, bs, es, fired, dt, plats) ==
    Only(
        { [ w |-> c.w, bullets |-> c.bullets, grenades |-> c.grenades,
            enemies |-> DashAttack(c.enemies, c.w),
            removed |-> [bullets |-> c.gone_bullets, grenades |-> c.gone] ] :
     c \in
        { [ w |-> b.w, bullets |-> b.bullets, gone_bullets |-> b.gone ] @@
          GrenadeLoop(gs \o b.w.ev_thrown, 1,
                      [enemies |-> es, grenades |-> << >>, gone |-> << >>], dt, plats) :
     b \in
        { BulletLoop(bs \o fired, 1,
                     [w |-> w, bullets |-> << >>, gone |-> << >>], dt, plats) } } })

\* ------------------------------------------ game003.py: ResponsivePlayer
\* The second controller. Its module-level constants share names with
\* GameConfig; those that clash carry the module's name in front.
GROUND_FRICTION == 800
MAX_GROUND_SPEED == 250
AIR_FRICTION == 200
MAX_AIR_SPEED == 200
game003_GROUND_ACCELERATION == 1200
game003_AIR_ACCELERATION == 800
JUMP_VELOCITY == -400
DOUBLE_JUMP_VELOCITY == -350
game003_GRAVITY == 1200
game003_MAX_FALL_SPEED == 600
game003_COYOTE_TIME == 150
JUMP_BUFFER_TIME == 100
VARIABLE_JUMP_CUTOFF == 300
game003_WALL_SLIDE_SPEED == 100
game003_WALL_JUMP_X_FORCE == 200
game003_WALL_JUMP_Y_FORCE == -350
game003_DASH_SPEED == 400
game003_DASH_DURATION == 200
game003_DASH_COOLDOWN == 800
IFRAME_DURATION == 300
game003_BULLET_SPEED == 500
game003_BULLET_LIFETIME == 3000
FIRE_RATE == 250
BULLET_SIZE == 6
SCREEN_WIDTH == 1600
SCREEN_HEIGHT == 900
FPS == 60
\* the body of a ResponsivePlayer: pygame.Rect(x-16, y-24, 32, 48)
BODY_WIDTH == 32
BODY_HEIGHT == 48
\* perform_jump's grounded_timer that disables coyote time, in ms
NO_COYOTE == 999000
\* _move_and_collide: ground_level = SCREEN_HEIGHT - 50, wall_thickness = 50
GROUND_MARGIN == 50
WALL_THICKNESS == 50
\* Bullet.update: how far off the screen a bullet may get
OFF_SCREEN_MARGIN == 50

\* create_action_level: the platforms in list order
ActionLevel ==
    << Rect(100, SCREEN_HEIGHT - 150, 200, 30), Rect(400, SCREEN_HEIGHT - 200, 300, 30),
       Rect(800, SCREEN_HEIGHT - 150, 200, 30), Rect(1200, SCREEN_HEIGHT - 250, 300, 30),
       Rect(200, SCREEN_HEIGHT - 350, 150, 20), Rect(500, SCREEN_HEIGHT - 400, 150, 20),
       Rect(900, SCREEN_HEIGHT - 450, 150, 20), Rect(1300, SCREEN_HEIGHT - 350, 150, 20),
       Rect(350, SCREEN_HEIGHT - 550, 200, 20), Rect(750, SCREEN_HEIGHT - 600, 200, 20),
       Rect(1100, SCREEN_HEIGHT - 550, 200, 20) >>

\* what a frame did to the ResponsivePlayer, for the properties:
\*   rev_jump   "first" / "double" for a perform_jump that jumped, "ignored"
\*              for one that found no jump left, "wall" for a wall jump;
\*   rev_wall   index of the platform whose left face stopped the player
\*              while it moved right, with rev_wall_vx and rev_wall_dashing
\*              the velocity.x and dashing it arrived with;
\*   rev_press  handle_input found jump newly pressed, with the on_ground,
\*              air_time and jumps_used it found (rev_press_...);
\*   rev_cut    the release of jump halved velocity.y.
\* cuts (history) is the number of such cuts since the last jump, wall jump
\* or frame that ended on the ground (counted up to 2).
\* air_time (history) is the update time since the player was last on the
\* ground at the end of a frame, counted up to COYOTE_TIME; the player is
\* constructed with grounded_timer 0, as if it had just left the ground.
NoResponsiveEvents ==
    [ rev_jump |-> "none", rev_wall |-> 0, rev_wall_vx |-> 0,
      rev_wall_dashing |-> FALSE,
      rev_dash_start |-> FALSE, rev_dash_dashing |-> FALSE, rev_dash_cooldown |-> 0,
      rev_dash_end |-> FALSE, rev_end_vx_in |-> 0, rev_end_vy_in |-> 0,
      rev_end_vx |-> 0, rev_end_vy |-> 0,
      rev_press |-> FALSE, rev_press_ground |-> FALSE, rev_press_air |-> 0,
      rev_press_jumps |-> 0, rev_cut |-> FALSE ]

\* ResponsivePlayer.__init__(x, y) together with InputBuffer.__init__: the
\* buffer is used by this player only and is kept in the same record
ResponsiveInit(sx, sy) ==
    [ x |-> sx * Unit, y |-> sy * Unit, vx |-> 0, vy |-> 0,
      on_ground |-> FALSE, was_on_ground |-> FALSE, grounded_timer |-> 0,
      on_wall |-> FALSE, wall_direction |-> 0,
      jumps_used |-> 0, jump_held |-> FALSE, jump_held_time |-> 0,
      dashing |-> FALSE, dash_timer |-> 0, dash_cooldown |-> 0,
      invulnerable |-> FALSE, iframe_timer |-> 0,
      facing_direction |-> 1, landed_this_frame |-> FALSE,
      bullets |-> << >>, fire_cooldown |-> 0,
      jump_buffer |-> 0, dash_buffer |-> 0, air_time |-> 0,
      cuts |-> 0 ] @@ NoResponsiveEvents

\* self.rect between frames: centred on (int(position.x), int(position.y))
ResponsiveRect(x, y) ==
    Rect(Px(x) - BODY_WIDTH \div 2, Px(y) - BODY_HEIGHT \div 2, BODY_WIDTH, BODY_HEIGHT)

\* InputBuffer.buffer_jump, InputBuffer.buffer_dash
buffer_jump(r) == [r EXCEPT !.jump_buffer = JUMP_BUFFER_TIME]

buffer_dash(r) == [r EXCEPT !.dash_buffer = JUMP_BUFFER_TIME]

\* ResponsivePlayer.perform_jump
perform_jump(r) ==
    IF r.jumps_used = 0
    THEN [r EXCEPT !.vy = JUMP_VELOCITY * Unit,
                   !.jumps_used = 1,
                   !.on_ground = FALSE,
                   !.grounded_timer = NO_COYOTE,
                   !.cuts = 0,
                   !.rev_jump = "first"]
    ELSE IF r.jumps_used = 1
    THEN [r EXCEPT !.vy = DOUBLE_JUMP_VELOCITY * Unit,
                   !.jumps_used = 2,
                   !.cuts = 0,
                   !.rev_jump = "double"]
    ELSE [r EXCEPT !.rev_jump = "ignored"]

\* ResponsivePlayer.start_dash(direction), direction in thousandths
start_dash(r, dx, dy) ==
    [r EXCEPT !.dashing = TRUE,
              !.dash_timer = game003_DASH_DURATION,
              !.dash_cooldown = game003_DASH_COOLDOWN,
              !.invulnerable = TRUE,
              !.iframe_timer = IFRAME_DURATION,
              !.vx = dx * game003_DASH_SPEED,
              !.vy = dy * game003_DASH_SPEED,
              !.rev_dash_start = TRUE,
              !.rev_dash_dashing = r.dashing,
              !.rev_dash_cooldown = r.dash_cooldown]

\* handle_input, "MOVEMENT INPUT" to "AIR MOVEMENT": 1/60 s of acceleration
\* towards the target speed whatever the frame took
Accelerate(r, move_input) ==
    LET ground == r.on_ground
        top == IF ground THEN MAX_GROUND_SPEED ELSE MAX_AIR_SPEED
        speed_diff == move_input * top * Unit - r.vx
        accel_rate == IF ground
                      THEN (IF move_input # 0 THEN game003_GROUND_ACCELERATION
                            ELSE GROUND_FRICTION)
                      ELSE (IF move_input # 0 THEN game003_AIR_ACCELERATION
                            ELSE AIR_FRICTION)
    IN IF Abs(speed_diff) * 10 > Unit
       THEN [r EXCEPT !.vx = @ + Quot(Quot(speed_diff * accel_rate, top), FPS)]
       ELSE IF ground THEN [r EXCEPT !.vx = move_input * top * Unit]
       ELSE r

\* handle_input, "JUMPING INPUT": jump is space or w
JumpInput(r, keys) ==
    IF "jump" \in keys \/ "up" \in keys
    THEN IF r.jump_held THEN r
         ELSE LET r1 == [r EXCEPT !.jump_held = TRUE, !.jump_held_time = 0,
                                  !.rev_press = TRUE,
                                  !.rev_press_ground = r.on_ground,
                                  !.rev_press_air = r.air_time,
                                  !.rev_press_jumps = r.jumps_used]
                  can_jump ==
                      \/ (r1.on_ground \/ r1.grounded_timer < game003_COYOTE_TIME)
                            /\ r1.jumps_used = 0
                      \/ r1.jumps_used = 1 /\ ~r1.on_ground
              IN IF r1.jump_buffer > 0
                 THEN perform_jump([r1 EXCEPT !.jump_buffer = 0])
                 ELSE IF can_jump THEN perform_jump(r1)
                 ELSE buffer_jump(r1)
    ELSE IF r.jump_held
         THEN IF r.vy < 0 /\ r.jump_held_time < VARIABLE_JUMP_CUTOFF
              THEN [r EXCEPT !.jump_held = FALSE, !.vy = Quot(@, 2),
                             !.rev_cut = TRUE, !.cuts = Min(@ + 1, 2)]
              ELSE [r EXCEPT !.jump_held = FALSE]
         ELSE r

\* handle_input, "DASH INPUT": the unit vectors (1, 1) and (1, -0.5)
\* normalised, in thousandths
DashInput(r, keys, move_input) ==
    IF "dash" \in keys /\ r.dash_cooldown <= 0 /\ ~r.dashing
    THEN LET sx == IF move_input # 0 THEN move_input ELSE r.facing_direction
         IN IF ~r.on_ground /\ "down" \in keys THEN start_dash(r, sx * 707, 707)
            ELSE IF ~r.on_ground /\ "up" \in keys THEN start_dash(r, sx * 894, -447)
            ELSE start_dash(r, sx * Unit, 0)
    ELSE r

\* game003's Bullet.__init__(x, y, direction), direction a unit vector in
\* thousandths; age is the update time the bullet has been through (history)
NewShot(sx, sy, dx, dy) ==
    [ x |-> sx * Unit, y |-> sy * Unit,
      vx |-> dx * game003_BULLET_SPEED, vy |-> dy * game003_BULLET_SPEED,
      lifetime |-> game003_BULLET_LIFETIME, active |-> TRUE, age |-> 0 ]

\* ResponsivePlayer.shoot(mouse_pos) with the pointer in direction (dx, dy)
\* of the player
shoot(r, dx, dy) ==
    [r EXCEPT !.bullets = Append(@, NewShot(Px(r.x), Px(r.y), dx, dy)),
              !.fire_cooldown = FIRE_RATE]

\* game003's Bullet.update(dt, platforms)
game003_Bullet_update(b, dt, plats) ==
    IF ~b.active THEN b
    ELSE Only(
        { IF m.lifetime <= 0 THEN [m EXCEPT !.active = FALSE]
          ELSE IF FirstHit(plats, Rect(Px(m.x - (BULLET_SIZE \div 2) * Unit),
                                       Px(m.y - (BULLET_SIZE \div 2) * Unit),
                                       BULLET_SIZE, BULLET_SIZE)) # 0
          THEN [m EXCEPT !.active = FALSE]
          ELSE IF \/ m.x < -OFF_SCREEN_MARGIN * Unit
                  \/ m.x > (SCREEN_WIDTH + OFF_SCREEN_MARGIN) * Unit
                  \/ m.y < -OFF_SCREEN_MARGIN * Unit
                  \/ m.y > (SCREEN_HEIGHT + OFF_SCREEN_MARGIN) * Unit
          THEN [m EXCEPT !.active = FALSE]
          ELSE m :
     m \in
        { [b EXCEPT !.x = @ + Move(b.vx, dt), !.y = @ + Move(b.vy, dt),
                    !.lifetime = @ - dt, !.age = @ + dt] } })

\* ResponsivePlayer.update, "UPDATE BULLETS": the inactive bullets are
\* dropped and the others updated
UpdateShots(bs, dt, plats) ==
    LET kept == SelectSeq(bs, LAMBDA b : b.active)
    IN [i \in 1..Len(kept) |-> game003_Bullet_update(kept[i], dt, plats)]

\* ResponsivePlayer.handle_input(keys, mouse_buttons, mouse_pos, ...), keys
\* the keys held down; "fire_right" and "fire_up" are the left mouse button
\* held with the pointer straight right of the player and straight above
\* it.  The steps, innermost first: facing direction, acceleration, jump
\* input, jump hold time, dash input, fast fall, shooting
handle_input(r, keys) ==
    LET move_input == IF "right" \in keys THEN 1
                      ELSE IF "left" \in keys THEN -1 ELSE 0
    IN Only(
        { IF r5.fire_cooldown > 0 THEN r5
          ELSE IF "fire_right" \in keys THEN shoot(r5, 1000, 0)
          ELSE IF "fire_up" \in keys THEN shoot(r5, 0, -1000)
          ELSE r5 :
     r5 \in
        { IF "down" \in keys /\ ~r4.on_ground /\ r4.vy > 0
          THEN [r4 EXCEPT !.vy = Min(Quot(@ * 3, 2), game003_MAX_FALL_SPEED * Unit)]
          ELSE r4 :
     r4 \in
        { DashInput(r3, keys, move_input) :
     r3 \in
        { IF r2.jump_held
          THEN [r2 EXCEPT !.jump_held_time = @ + Unit \div FPS] ELSE r2 :
     r2 \in
        { JumpInput(ra, keys) :
     ra \in
        { Accelerate(r1, move_input) :
     r1 \in
        { IF move_input # 0 THEN [r0 EXCEPT !.facing_direction = move_input] ELSE r0 :
     r0 \in {r} } } } } } } })

\* _move_and_collide, "Check horizontal collisions": platforms i.. in order
RECURSIVE HorizontalPass(_, _, _, _)
HorizontalPass(r, plats, i, y0) ==
    IF i > Len(plats) THEN r
    ELSE HorizontalPass(Only(
        { IF ~CollideRect(ResponsiveRect(v.x, y0), plats[i]) THEN v
          ELSE IF v.vx > 0
          THEN [v EXCEPT !.x = (plats[i].l - BODY_WIDTH \div 2) * Unit,
                         !.vx = 0,
                         !.rev_wall = i, !.rev_wall_vx = v.vx,
                         !.rev_wall_dashing = v.dashing]
          ELSE IF v.vx < 0
          THEN [v EXCEPT !.x = (plats[i].l + plats[i].w + BODY_WIDTH \div 2) * Unit,
                         !.vx = 0]
          ELSE v :
     v \in {r} }), plats, i + 1, y0)

\* _move_and_collide, "Check vertical collisions": platforms i.. in order
RECURSIVE VerticalPass(_, _, _)
VerticalPass(r, plats, i) ==
    IF i > Len(plats) THEN r
    ELSE VerticalPass(Only(
        { IF ~CollideRect(ResponsiveRect(v.x, v.y), plats[i]) THEN v
          ELSE IF v.vy > 0
          THEN [v EXCEPT !.y = (plats[i].t - BODY_HEIGHT \div 2) * Unit,
                         !.vy = 0, !.on_ground = TRUE]
          ELSE IF v.vy < 0
          THEN [v EXCEPT !.y = (plats[i].t + plats[i].h + BODY_HEIGHT \div 2) * Unit,
                         !.vy = 0]
          ELSE v :
     v \in {r} }), plats, i + 1)

\* ResponsivePlayer._move_and_collide.  The steps, innermost first: move in x
\* and collide, screen bounds, move in y and collide, ground, wall detection
_move_and_collide(r, plats, dt) ==
    LET ground_level == SCREEN_HEIGHT - GROUND_MARGIN
    IN Only(
        { IF r4.on_ground \/ r4.dashing THEN r4
          ELSE IF Px(r4.x) - BODY_WIDTH \div 2 <= WALL_THICKNESS /\ r4.vx <= 0
          THEN [r4 EXCEPT !.on_wall = TRUE, !.wall_direction = -1]
          ELSE IF Px(r4.x) + BODY_WIDTH \div 2 >= SCREEN_WIDTH - WALL_THICKNESS
                  /\ r4.vx >= 0
          THEN [r4 EXCEPT !.on_wall = TRUE, !.wall_direction = 1]
          ELSE r4 :
     r4 \in
        { IF Px(r3.y) + BODY_HEIGHT \div 2 >= ground_level
          THEN [r3 EXCEPT !.y = (ground_level - BODY_HEIGHT \div 2) * Unit,
                          !.vy = 0, !.on_ground = TRUE]
          ELSE r3 :
     r3 \in
        { VerticalPass([r2 EXCEPT !.y = @ + Move(r2.vy, dt),
                                  !.on_ground = FALSE,
                                  !.on_wall = FALSE,
                                  !.wall_direction = 0], plats, 1) :
     r2 \in
        { IF Px(r1.x) - BODY_WIDTH \div 2 < 0
          THEN [r1 EXCEPT !.x = (BODY_WIDTH \div 2) * Unit, !.vx = 0]
          ELSE IF Px(r1.x) + BODY_WIDTH \div 2 > SCREEN_WIDTH
          THEN [r1 EXCEPT !.x = (SCREEN_WIDTH - BODY_WIDTH \div 2) * Unit, !.vx = 0]
          ELSE r1 :
     r1 \in
        { HorizontalPass([r0 EXCEPT !.x = @ + Move(r0.vx, dt)], plats, 1, r0.y) :
     r0 \in {r} } } } } })

\* ResponsivePlayer.update(dt, platforms, ..., input_buffer).  The steps,
\* innermost first: timers, end of dash, end of invulnerability, gravity,
\* wall slide, buffered wall jump, movement, landing, the bullets and
\* input_buffer.update
game003_update(r, dt, plats) ==
    Only(
        { [r9 EXCEPT !.bullets = UpdateShots(@, dt, plats),
                     !.jump_buffer = Max(0, @ - dt), !.dash_buffer = Max(0, @ - dt)] :
     r9 \in
        { IF r8.on_ground /\ ~r8.was_on_ground
          THEN [r8 EXCEPT !.landed_this_frame = TRUE,
                          !.jumps_used = 0,
                          !.grounded_timer = 0]
          ELSE [r8 EXCEPT !.landed_this_frame = FALSE] :
     r8 \in
        { _move_and_collide([r7 EXCEPT !.was_on_ground = r7.on_ground], plats, dt) :
     r7 \in
        { IF ~(r5.on_wall /\ r5.jump_buffer > 0) THEN r5
          ELSE IF r5.dashing THEN [r5 EXCEPT !.jump_buffer = 0]
          ELSE [r5 EXCEPT !.jump_buffer = 0,
                          !.vx = -r5.wall_direction * game003_WALL_JUMP_X_FORCE * Unit,
                          !.vy = game003_WALL_JUMP_Y_FORCE * Unit,
                          !.jumps_used = 1,
                          !.cuts = 0,
                          !.rev_jump = "wall"] :
     r5 \in
        { IF r4.on_wall /\ ~r4.on_ground /\ r4.vy > 0 /\ ~r4.dashing
          THEN [r4 EXCEPT !.vy = Min(@, game003_WALL_SLIDE_SPEED * Unit)]
          ELSE r4 :
     r4 \in
        { IF ~r3.dashing /\ ~r3.on_ground
          THEN [r3 EXCEPT !.vy =
                   Min(@ + (IF r3.vy > 0 THEN Quot(game003_GRAVITY * 3, 2)
                            ELSE game003_GRAVITY) * dt,
                       game003_MAX_FALL_SPEED * Unit)]
          ELSE r3 :
     r3 \in
        { IF r2.iframe_timer <= 0 THEN [r2 EXCEPT !.invulnerable = FALSE] ELSE r2 :
     r2 \in
        { IF r1.dashing /\ r1.dash_timer <= 0
          THEN [r1 EXCEPT !.dashing = FALSE, !.vx = Quot(@, 2), !.vy = Quot(@, 2),
                          !.rev_dash_end = TRUE,
                          !.rev_end_vx_in = r1.vx, !.rev_end_vy_in = r1.vy,
                          !.rev_end_vx = Quot(r1.vx, 2), !.rev_end_vy = Quot(r1.vy, 2)]
          ELSE r1 :
     r1 \in
        { [r EXCEPT !.grounded_timer = @ + dt,
                    !.dash_timer = Max(0, @ - dt),
                    !.dash_cooldown = Max(0, @ - dt),
                    !.fire_cooldown = Max(0, @ - dt),
                    !.iframe_timer = Max(0, @ - dt)] } } } } } } } } })

\* One iteration of game003.main's loop: the KEYDOWN events of the frame,
\* then handle_input on the keys held, then update
ResponsiveFrame(r, keys, pressed, dt, plats) ==
    LET r0 == [r EXCEPT !.rev_jump = "none", !.rev_wall = 0, !.rev_wall_vx = 0,
                        !.rev_wall_dashing = FALSE,
                        !.rev_dash_start = FALSE, !.rev_dash_dashing = FALSE,
                        !.rev_dash_cooldown = 0,
                        !.rev_dash_end = FALSE, !.rev_end_vx_in = 0, !.rev_end_vy_in = 0,
                        !.rev_end_vx = 0, !.rev_end_vy = 0,
                        !.rev_press = FALSE, !.rev_press_ground = FALSE,
                        !.rev_press_air = 0, !.rev_press_jumps = 0,
                        !.rev_cut = FALSE]
        r1 == IF "jump" \in pressed THEN buffer_jump(r0) ELSE r0
        r2 == IF "dash" \in pressed THEN buffer_dash(r1) ELSE r1
    IN Only({ [m EXCEPT !.air_time = IF m.on_ground THEN 0
                                     ELSE Min(r.air_time + dt, game003_COYOTE_TIME),
                        !.cuts = IF m.on_ground THEN 0 ELSE @] :
              m \in {game003_update(handle_input(r2, keys), dt, plats)} })

\* ---------------------------------------------------------- state machine
\* the time one frame takes, in ms: run_game_loop's clock.tick() result
FrameTime == 50

\* where the player is constructed (PlatformerGame.__init__ passes its spawn
\* point to Player): the game's own spawn point, and points in the air above
\* the ground, just above the ground, above the right edge of the ground,
\* left of the wall, and over the gap just above the fall threshold
SpawnPoints ==
    { <<200, 400>>, <<250, 460>>, <<100, 572>>, <<390, 572>>, <<520, 420>>,
      <<500, 985>> }

VARIABLES
    player,     \* the Player object
    prev,       \* the Player object as it was before the last call (history)
    grenades,   \* PlatformerGame.grenades
    bullets,    \* PlatformerGame.bullets
    enemies,    \* PlatformerGame.enemies
    removed,    \* the bullets and grenades the last call removed (history)
    held,       \* InputManager.keys_currently_held
    ev,         \* what the last call did (history, not program state)
    call,       \* the last call: operation, delta_time, input snapshot
    sinceDash,  \* simulated time since the last dash started, -1 if none (history)
    sincePoundJump, \* time since jump was last pressed in this pound, -1 if not
    hist,       \* what the calls so far amount to for the properties (history)
    rp,         \* the ResponsivePlayer object of game003 with its InputBuffer
    ticks,      \* number of update calls so far
    events      \* number of external events so far

vars == <<player, prev, grenades, bullets, enemies, removed, held, ev, call,
          sinceDash, sincePoundJump, hist, rp, ticks, events>>

\* no bullet and no grenade was removed
NoneRemoved == [bullets |-> << >>, grenades |-> << >>]

NoInput == Snapshot({}, {})

\* airborne and nearly at rest: the stuck test of _update_timers
StillAirborne(pl) ==
    Abs(pl.vx) < 5 * Unit /\ Abs(pl.vy) < 5 * Unit /\ ~pl.is_on_ground

\* History of the update calls, kept for the properties:
\*   still      update time of the latest run of consecutive calls that each
\*              began and ended with the player airborne and nearly at rest;
\*   pressAge   update time since jump was pressed in a normal-movement tick
\*              that could not jump, the tick of the press included; -1 when
\*              no such press is pending (none made, or a jump or a new
\*              press has come since);
\*   ageBefore  pressAge as it was when the last call began;
\*   landAge    pressAge at the end of the tick in which the player then
\*              became grounded, -1 before that and after the first
\*              normal-movement tick that follows;
\*   due        in that first normal-movement tick, if it has no new press:
\*              "fire" if landAge < JUMP_BUFFER, else "late";
\*   cancelled  a dash has cancelled an active ground pound and the player
\*              has not touched a floor, pounded again or respawned since;
\*   cancelLanding  this call is the floor contact that ends cancelled;
\*   impactAge  update time since the end of the call in which the latest
\*              ground pound hit, -1 if none has hit since the last respawn;
\*              it stops counting at GROUND_POUND_COOLDOWN;
\*   impactBefore  impactAge as it was when the last call began;
\*   fulls      number of jumps at JUMP_STRENGTH since the last call that
\*              ended with the player on the ground (counted up to 2);
\*   wallFrom   wall_direction of the wall the latest wall jump left, while
\*              its wall_jump_momentum_timer runs, else 0;
\*   wallFromBefore  wallFrom as it was when the last call began;
\*   throwAge   the simulated time from the beginning of the update call of
\*              the latest grenade throw to the end of the last call (counted
\*              up to GRENADE_THROW_COOLDOWN), or -1 when there has been no
\*              throw since the start or the latest respawn;
\*   throwBefore  throwAge as it was when the last call began;
\*   grenadesBefore  the length of the grenade collection when the last
\*              call began.
NoHistory ==
    [ still |-> 0, pressAge |-> -1, ageBefore |-> -1, landAge |-> -1, due |-> "none",
      cancelled |-> FALSE, cancelLanding |-> FALSE,
      impactAge |-> -1, impactBefore |-> -1, fulls |-> 0,
      wallFrom |-> 0, wallFromBefore |-> 0,
      throwAge |-> -1, throwBefore |-> -1, grenadesBefore |-> 0 ]

\* the history after an update call of length dt with input inp that took
\* the player pl to the working record w
History(h, pl, w, dt, inp) ==
    LET unavailable == w.ev_normal /\ inp.jump_pressed /\ w.ev_jump = "none"
        settle == w.ev_normal /\ h.landAge >= 0
        age == IF unavailable THEN dt
               ELSE IF w.ev_jump # "none" \/ h.pressAge < 0
                       \/ inp.jump_pressed \/ w.ev_respawn THEN -1
               ELSE Min(h.pressAge + dt, JUMP_BUFFER + dt)
        landed == w.is_on_ground /\ ~pl.is_on_ground
        nowCancelled == /\ ~w.ev_respawn
                        /\ ~w.is_ground_pounding
                        /\ \/ w.ev_dash_start /\ pl.is_ground_pounding
                           \/ h.cancelled
    IN [ still |-> IF ~w.ev_respawn /\ StillAirborne(pl) /\ StillAirborne(w)
                   THEN Min(h.still + dt, 4 * STUCK_TIME) ELSE 0,
         pressAge |-> age,
         ageBefore |-> h.pressAge,
         landAge |-> IF age < 0 \/ unavailable \/ settle THEN -1
                     ELSE IF h.landAge < 0 /\ landed THEN age
                     ELSE h.landAge,
         due |-> IF settle /\ ~inp.jump_pressed
                 THEN (IF h.landAge < JUMP_BUFFER THEN "fire" ELSE "late")
                 ELSE "none",
         cancelled |-> nowCancelled /\ ~w.is_on_ground,
         cancelLanding |-> nowCancelled /\ w.is_on_ground,
         impactAge |-> IF w.ev_respawn THEN -1
                       ELSE IF w.ev_impact # "none" THEN 0
                       ELSE IF h.impactAge < 0 THEN -1
                       ELSE Min(h.impactAge + dt, GROUND_POUND_COOLDOWN),
         impactBefore |-> h.impactAge,
         fulls |-> IF w.is_on_ground THEN 0
                   ELSE IF w.ev_jump = "full" THEN Min(h.fulls + 1, 2)
                   ELSE h.fulls,
         wallFrom |-> IF w.ev_jump = "wall" THEN w.ev_jump_wall
                      ELSE IF w.wall_jump_momentum_timer > 0 THEN h.wallFrom
                      ELSE 0,
         wallFromBefore |-> h.wallFrom,
         throwAge |-> IF w.ev_respawn THEN -1
                      ELSE IF w.ev_thrown # << >> THEN Min(dt, GRENADE_THROW_COOLDOWN)
                      ELSE IF h.throwAge < 0 THEN -1
                      ELSE Min(h.throwAge + dt, GRENADE_THROW_COOLDOWN),
         throwBefore |-> h.throwAge,
         grenadesBefore |-> Len(grenades) ]

\* the history after a take_damage call that left the working record w: a
\* respawn ends what is counted since the latest respawn
AfterStrike(h, w) ==
    IF w.ev_respawn THEN [h EXCEPT !.impactAge = -1, !.throwAge = -1] ELSE h

InitAt(points) ==
    /\ \E sp \in points : player = PlayerInit(sp[1], sp[2])
    /\ prev = player
    /\ grenades = << >>
    /\ bullets = << >>
    /\ enemies = Enemies
    /\ removed = NoneRemoved
    /\ held = {}
    /\ ev = NoEvents
    /\ call = [op |-> "init", dt |-> 0, inp |-> NoInput, pressed |-> {}]
    /\ sinceDash = -1
    /\ sincePoundJump = -1
    /\ hist = NoHistory
    /\ rp = ResponsiveInit(SCREEN_WIDTH \div 2, SCREEN_HEIGHT \div 2)
    /\ ticks = 0
    /\ events = 0

Init == InitAt(SpawnPoints)

\* the working record of a call: the player's fields and a fresh event record
Work(pl) == pl @@ NoEvents
PlayerOf(w) == [f \in PlayerFields |-> w[f]]
EventsOf(w) == [f \in EvFields |-> w[f]]

\* a stopwatch over update calls: restarted by its event, else advanced by
\* dt; it stops counting at 4 s, beyond every time it is compared with
Stopwatch(t, restart, dt) ==
    IF restart THEN 0 ELSE IF t >= 0 THEN Min(t + dt, 4 * STUCK_TIME) ELSE t

\* the subsets of S with at most k elements
RECURSIVE UpTo(_, _)
UpTo(S, k) ==
    IF k <= 0 THEN {{}}
    ELSE LET smaller == UpTo(S, k - 1)
         IN smaller \cup {T \cup {x} : T \in smaller, x \in S}

\* One call of Player.update(dt, ...) on the platforms plats with the keys
\* nowHeld down and the keys pressed newly down, and what it leaves in the
\* history.  With whole set it is the whole of update_game_logic, in which
\* the enemies fire as aim says; otherwise the player's part only, the
\* grenades thrown being kept as they were thrown.
CallOn(plats, dt, nowHeld, pressed, whole, aim) ==
    LET inp == Snapshot(nowHeld, pressed)
    IN \E o \in { IF whole
                  THEN update_game_logic(u, grenades, bullets, enemies, Fired(u, aim),
                                         dt, plats)
                  ELSE [ w |-> u, grenades |-> grenades \o u.ev_thrown,
                         bullets |-> bullets, enemies |-> enemies,
                         removed |-> NoneRemoved ] :
                  u \in {update(Work(player), dt, inp, plats, TRUE)} } :
       \E w \in {o.w} :
          /\ player' = PlayerOf(w)
          /\ prev' = player
          /\ ev' = EventsOf(w)
          /\ grenades' = o.grenades
          /\ bullets' = o.bullets
          /\ enemies' = o.enemies
          /\ removed' = o.removed
          /\ held' = nowHeld
          /\ call' = [op |-> "update", dt |-> dt, inp |-> inp, pressed |-> pressed]
          /\ sinceDash' = Stopwatch(sinceDash, w.ev_dash_start, dt)
          /\ sincePoundJump' =
                 IF w.ev_gp_start /\ ~w.ev_gp_buffered THEN -1
                 ELSE Stopwatch(sincePoundJump, w.ev_gp_buffered, dt)
          /\ hist' = History(hist, player, w, dt, inp)

Call(plats, dt, nowHeld, pressed) == CallOn(plats, dt, nowHeld, pressed, FALSE, << >>)

\* game003 is not running
ResponsiveIdle(nowHeld, pressed) == UNCHANGED rp

\* game003 is running at the same keyboard
ResponsiveCalled(nowHeld, pressed) ==
    \E r \in {ResponsiveFrame(rp, nowHeld, pressed, FrameTime, ActionLevel)} : rp' = r

\* One iteration of run_game_loop as far as the player is concerned:
\* InputManager.update(events), then Player.update(delta_time, ...).
\* pressed are the keys with a KEYDOWN in this frame, released those with a
\* KEYUP (a key in both was tapped within the frame); keys are the keys the
\* person playing uses. With both set, game003 runs at the same keyboard
\* and the frame is one of its frames too.
FrameOn(plats, keys, dt, maxTicks, maxEvents, both) ==
    /\ ticks < maxTicks
    /\ \E pressed \in UpTo(keys \ held, maxEvents - events) :
       \E released \in UpTo(held \cup pressed,
                            maxEvents - events - Cardinality(pressed)) :
       \E nowHeld \in {(held \cup pressed) \ released} :
          /\ Call(plats, dt, nowHeld, pressed)
          /\ IF both THEN ResponsiveCalled(nowHeld, pressed)
             ELSE ResponsiveIdle(nowHeld, pressed)
          /\ events' = events + Cardinality(pressed) + Cardinality(released)
    /\ ticks' = ticks + 1

Frame(keys, dt, maxTicks, maxEvents) ==
    FrameOn(Platforms, keys, dt, maxTicks, maxEvents, FALSE)

\* One iteration of run_game_loop with the whole of update_game_logic:
\* InputManager.update(events), then update_game_logic(delta_time), in
\* which the enemies fire as one of aims says
LogicFrame(keys, dt, maxTicks, maxEvents, aims) ==
    /\ ticks < maxTicks
    /\ \E pressed \in UpTo(keys \ held, maxEvents - events) :
       \E released \in UpTo(held \cup pressed,
                            maxEvents - events - Cardinality(pressed)) :
       \E nowHeld \in {(held \cup pressed) \ released} :
       \E aim \in IF events + Cardinality(pressed) + Cardinality(released) < maxEvents
                  THEN aims \cup {<< >>} ELSE {<< >>} :
          /\ CallOn(Platforms, dt, nowHeld, pressed, TRUE, aim)
          /\ events' = events + Cardinality(pressed) + Cardinality(released)
                              + (IF aim = << >> THEN 0 ELSE 1)
    /\ ticks' = ticks + 1
    /\ UNCHANGED rp

\* a bullet reaches the player: the bullet loop of update_game_logic calls
\* take_damage when the player is not invincible.  The game passes 25; the
\* second amount stands for the hit that finds the health already at 25.
DamageAmounts == {BULLET_DAMAGE, MAX_HEALTH}

BulletHit ==
    /\ events < MaxEvents
    /\ call.op = "update"
    /\ ~player.is_invincible
    /\ \E d \in DamageAmounts :
          \E w \in {take_damage(Work(player), d)} :
             /\ player' = PlayerOf(w)
             /\ prev' = player
             /\ ev' = EventsOf(w)
             /\ call' = [op |-> "take_damage", dt |-> 0, inp |-> NoInput, pressed |-> {}]
             /\ hist' = AfterStrike(hist, w)
    /\ events' = events + 1
    /\ UNCHANGED <<grenades, bullets, enemies, removed, held, sinceDash, sincePoundJump,
                 rp, ticks>>

Tick == Frame(Keys, FrameTime, MaxTicks, MaxEvents)

Next == Tick \/ BulletHit

Spec == Init /\ [][Next]_vars

\* The same machine with update calls of delta_time = 0 among the others.
MaxZeroTicks == 4

ZeroTick == Frame(Keys, 0, MaxZeroTicks, MaxEvents)

TimedTick == Frame(Keys, FrameTime, MaxZeroTicks, MaxEvents)

NextZero == ZeroTick \/ TimedTick

SpecZero == Init /\ [][NextZero]_vars

\* The machine of a player constructed in the air over the ground, just high
\* enough for a ground pound, and played with the ground-pound (down), jump
\* and dash keys only: whole ground pounds, from the press to the impact,
\* with more key events than the machines above allow.
MaxPoundTicks == 5

MaxPoundEvents == 5
MaxJumpTicks == 12
MaxJumpEvents == 6
MaxBothTicks == 8
MaxBothEvents == 3
MaxDamageTicks == 4
MaxDamageEvents == 3
MaxStuckTicks == 32
MaxStuckEvents == 2
MaxCountTicks == 7
MaxCountEvents == 5
MaxGrenadeTicks == 42
MaxGrenadeEvents == 2
MaxBulletTicks == 37
MaxBulletEvents == 2
MaxShotTicks == 70
MaxShotEvents == 2

PoundSpawnPoints == { <<100, 470>>, <<100, 450>> }

PoundKeys == {"down", "jump", "dash"}

InitPound == InitAt(PoundSpawnPoints)

PoundTick == Frame(PoundKeys, FrameTime, MaxPoundTicks, MaxPoundEvents)

NextPound == PoundTick

SpecPound == InitPound /\ [][NextPound]_vars

\* Jumping: the player starts just above the floor, in the open or beside
\* the edge of a platform, and jump and up are used, over enough frames
\* for a jump to come back down and for a ledge to be grabbed and left.
JumpSpawnPoints == { <<100, 572>>, <<390, 572>> }

JumpKeys == {"jump", "up"}

InitJump == InitAt(JumpSpawnPoints)

JumpTick == Frame(JumpKeys, FrameTime, MaxJumpTicks, MaxJumpEvents)

NextJump == JumpTick

SpecJump == InitJump /\ [][NextJump]_vars

\* Falling: no platforms at all and no input. The frames are not counted:
\* the game loop calls update for as long as the game runs.
NoPlatforms == << >>

FallTick ==
    /\ Call(NoPlatforms, FrameTime, {}, {})
    /\ UNCHANGED <<rp, ticks, events>>

NextFall == FallTick

SpecFall == Init /\ [][NextFall]_vars

\* what every update call without input leaves behind, whatever it does to
\* the player: the player as it was, and the record of the call
UpdateCalled ==
    /\ prev' = player
    /\ call' = [op |-> "update", dt |-> FrameTime, inp |-> NoInput, pressed |-> {}]

\* run_game_loop calls update in every iteration: the loop does not stop
\* while a further call would still leave something new behind
SpecFallLive == SpecFall /\ WF_<<prev, call>>(UpdateCalled)

\* Damage: frames with dash and right, take_damage called whatever the
\* player's state, and bullets that overlap the player whatever its state.
DamageKeys == {"dash", "right"}

DamageTick == Frame(DamageKeys, FrameTime, MaxDamageTicks, MaxDamageEvents)

\* a call of Player.take_damage(damage_amount)
TakeDamage ==
    /\ events < MaxDamageEvents
    /\ \E d \in DamageAmounts :
          \E w \in {take_damage(Work(player), d)} :
             /\ player' = PlayerOf(w)
             /\ prev' = player
             /\ ev' = EventsOf(w)
             /\ call' = [op |-> "take_damage", dt |-> 0, inp |-> NoInput, pressed |-> {}]
             /\ hist' = AfterStrike(hist, w)
    /\ events' = events + 1
    /\ UNCHANGED <<grenades, bullets, enemies, removed, held, sinceDash, sincePoundJump,
                 rp, ticks>>

\* update_game_logic's bullet loop for a bullet whose collision_rect
\* overlaps the player's
BulletOverlap ==
    /\ events < MaxDamageEvents
    /\ \E w \in {IF ~player.is_invincible
                  THEN take_damage(Work(player), BULLET_DAMAGE)
                  ELSE Work(player)} :
          /\ player' = PlayerOf(w)
          /\ prev' = player
          /\ ev' = EventsOf(w)
          /\ call' = [op |-> "bullet", dt |-> 0, inp |-> NoInput, pressed |-> {}]
          /\ hist' = AfterStrike(hist, w)
    /\ events' = events + 1
    /\ UNCHANGED <<grenades, bullets, enemies, removed, held, sinceDash, sincePoundJump,
                 rp, ticks>>

NextDamage == DamageTick \/ TakeDamage \/ BulletOverlap

SpecDamage == Init /\ [][NextDamage]_vars

\* Grenades: slow frames of 100 ms with the whole game logic, the player
\* put just above the ground, above its right edge, or in the air over
\* the gap; no enemy fires.
GrenadeFrameTime == 100

GrenadeSpawnPoints == { <<100, 572>>, <<390, 572>>, <<520, 420>> }

GrenadeKeys == {"grenade", "right"}

InitGrenade == InitAt(GrenadeSpawnPoints)

GrenadeTick ==
    LogicFrame(GrenadeKeys, GrenadeFrameTime, MaxGrenadeTicks, MaxGrenadeEvents, {})

NextGrenade == GrenadeTick

SpecGrenade == InitGrenade /\ [][NextGrenade]_vars

\* Bullets: slow frames of 100 ms with the whole game logic, the player put
\* just above the ground; an enemy level with the player to its left, or
\* straight above it, fires from 40 or 100 pixels away.
BulletSpawnPoints == { <<100, 572>> }

BulletKeys == {"dash"}

Aims == { <<1000, 0, 40>>, <<1000, 0, 100>>, <<0, 1000, 40>>, <<0, 1000, 100>> }

InitBullet == InitAt(BulletSpawnPoints)

\* main.py is the program that runs
BulletTick ==
    /\ call.op # "game003"
    /\ LogicFrame(BulletKeys, GrenadeFrameTime, MaxBulletTicks, MaxBulletEvents, Aims)

\* game003.py is the program that runs: one iteration of its main loop, a
\* frame of 100 ms, with the keys and the mouse of ShotKeys
ShotKeys == {"left", "fire_right", "fire_up"}

ShotTick ==
    /\ call.op \in {"init", "game003"}
    /\ ticks < MaxShotTicks
    /\ \E pressed \in UpTo(ShotKeys \ held, MaxShotEvents - events) :
       \E released \in UpTo(held \cup pressed,
                            MaxShotEvents - events - Cardinality(pressed)) :
       \E nowHeld \in {(held \cup pressed) \ released} :
       \E r \in {ResponsiveFrame(rp, nowHeld, pressed, GrenadeFrameTime, ActionLevel)} :
          /\ rp' = r
          /\ held' = nowHeld
          /\ call' = [op |-> "game003", dt |-> GrenadeFrameTime, inp |-> NoInput,
                      pressed |-> pressed]
          /\ events' = events + Cardinality(pressed) + Cardinality(released)
    /\ ticks' = ticks + 1
    /\ UNCHANGED <<player, prev, grenades, bullets, enemies, removed, ev, sinceDash,
                   sincePoundJump, hist>>

NextBullet == BulletTick \/ ShotTick

SpecBullet == InitBullet /\ [][NextBullet]_vars

\* Hanging at a wall: the player starts in the air left of the wall and
\* uses right and jump, over more than STUCK_TIME of frames.
StuckSpawnPoints == { <<520, 420>> }

StuckKeys == {"right", "jump"}

InitStuck == InitAt(StuckSpawnPoints)

StuckTick == Frame(StuckKeys, FrameTime, MaxStuckTicks, MaxStuckEvents)

NextStuck == StuckTick

SpecStuck == InitStuck /\ [][NextStuck]_vars

\* Both controllers at one keyboard: main.py's Player and game003.py's
\* ResponsivePlayer get the same keys in the same frames (up is w, down is
\* s, jump is space, dash is shift), each in its own level.
BothSpawnPoints == { <<520, 420>>, <<100, 572>>, <<500, 985>> }

BothKeys == {"right", "jump", "dash", "down"}

InitBoth == InitAt(BothSpawnPoints)

BothTick ==
    FrameOn(Platforms, BothKeys, FrameTime, MaxBothTicks, MaxBothEvents, TRUE)

NextBoth == BothTick

SpecBoth == InitBoth /\ [][NextBoth]_vars

\* Both controllers at one keyboard with jump and dash only, and enough key
\* events for three presses of jump.
CountSpawnPoints == { <<520, 420>>, <<100, 572>> }

CountKeys == {"jump", "dash"}

InitCount == InitAt(CountSpawnPoints)

CountTick ==
    FrameOn(Platforms, CountKeys, FrameTime, MaxCountTicks, MaxCountEvents, TRUE)

NextCount == CountTick

SpecCount == InitCount /\ [][NextCount]_vars

\* Both controllers at one keyboard in frames of a tenth of a second, long
\* enough for a fall to reach the terminal speed: in the air over the gap,
\* and in the air beside the wall at x = 550.
MaxSpeedTicks == 8
MaxSpeedEvents == 3

SpeedSpawnPoints == { <<520, 420>>, <<525, 250>> }

SpeedKeys == {"right", "down", "dash"}

InitSpeed == InitAt(SpeedSpawnPoints)

SpeedTick ==
    /\ ticks < MaxSpeedTicks
    /\ \E pressed \in UpTo(SpeedKeys \ held, MaxSpeedEvents - events) :
       \E released \in UpTo(held \cup pressed,
                            MaxSpeedEvents - events - Cardinality(pressed)) :
       \E nowHeld \in {(held \cup pressed) \ released} :
          /\ Call(Platforms, GrenadeFrameTime, nowHeld, pressed)
          /\ \E r \in {ResponsiveFrame(rp, nowHeld, pressed, GrenadeFrameTime,
                                       ActionLevel)} : rp' = r
          /\ events' = events + Cardinality(pressed) + Cardinality(released)
    /\ ticks' = ticks + 1

NextSpeed == SpeedTick

SpecSpeed == InitSpeed /\ [][NextSpeed]_vars

\* Both controllers at one keyboard through a fall into the pit and the
\* respawn after it, in frames of a tenth of a second.
MaxRespawnTicks == 16
MaxRespawnEvents == 4

RespawnSpawnPoints == { <<520, 440>>, <<100, 572>> }

RespawnKeys == {"dash", "down"}

InitRespawn == InitAt(RespawnSpawnPoints)

RespawnTick ==
    /\ ticks < MaxRespawnTicks
    /\ \E pressed \in UpTo(RespawnKeys \ held, MaxRespawnEvents - events) :
       \E released \in UpTo(held \cup pressed,
                            MaxRespawnEvents - events - Cardinality(pressed)) :
       \E nowHeld \in {(held \cup pressed) \ released} :
          /\ Call(Platforms, GrenadeFrameTime, nowHeld, pressed)
          /\ \E r \in {ResponsiveFrame(rp, nowHeld, pressed, GrenadeFrameTime,
                                       ActionLevel)} : rp' = r
          /\ events' = events + Cardinality(pressed) + Cardinality(released)
    /\ ticks' = ticks + 1

NextRespawn == RespawnTick

SpecRespawn == InitRespawn /\ [][NextRespawn]_vars

\* The level with a wall that has a lip added on the second ground
\* platform: the wall stands on the ground (top 600) and the lip juts 6 px
\* out of its left face at head height of a player standing on the ground.
\* Player.update takes the platforms as an argument.
LipLevel == Platforms \o << Rect(860, 500, 40, 100), Rect(854, 535, 6, 20) >>

MaxLipTicks == 10
MaxLipEvents == 3

LipSpawnPoints == { <<800, 572>>, <<820, 440>> }

LipKeys == {"right", "dash", "jump"}

InitLip == InitAt(LipSpawnPoints)

LipTick == FrameOn(LipLevel, LipKeys, FrameTime, MaxLipTicks, MaxLipEvents, FALSE)

NextLip == LipTick

SpecLip == InitLip /\ [][NextLip]_vars

\* Nobody at the keyboard: update calls without input on the game's level,
\* each frame taking either the usual time or, after a hitch of the machine,
\* more than a second (clock.tick returns whatever time has passed).
HitchTime == 1200

IdleTimes == {FrameTime, HitchTime}

IdleTick ==
    /\ \E dt \in IdleTimes : Call(Platforms, dt, {}, {})
    /\ UNCHANGED <<rp, ticks, events>>

NextIdle == IdleTick

SpecIdle == Init /\ [][NextIdle]_vars

\* what every such call leaves behind, whatever it does to the player
IdleCalled ==
    /\ prev' = player
    /\ \E dt \in IdleTimes :
          call' = [op |-> "update", dt |-> dt, inp |-> NoInput, pressed |-> {}]

\* run_game_loop calls update in every iteration: the loop does not stop
\* while a further call would still leave something new behind
SpecIdleLive == SpecIdle /\ WF_<<prev, call>>(IdleCalled)

\* Ground pounds played for as long as it takes: any number of frames and
\* a bounded number of events, an event being a key going down or up or a
\* frame that takes more than a second.
MaxPoundLiveEvents == 3

\* A player whose movement is locked while it moves upward rises for ever;
\* it is followed up to this height above the top of the level, in pixels.
MaxRise == 300

PoundLiveKeys == {"down", "dash"}

PoundLiveTick ==
    /\ player.y > -MaxRise * Unit \/ player.is_ground_pounding
    /\ \E pressed \in UpTo(PoundLiveKeys \ held, MaxPoundLiveEvents - events) :
       \E released \in UpTo(held \cup pressed,
                            MaxPoundLiveEvents - events - Cardinality(pressed)) :
       \E nowHeld \in {(held \cup pressed) \ released} :
       \E dt \in IF events + Cardinality(pressed) + Cardinality(released)
                    < MaxPoundLiveEvents
                 THEN IdleTimes ELSE {FrameTime} :
          /\ Call(Platforms, dt, nowHeld, pressed)
          /\ events' = events + Cardinality(pressed) + Cardinality(released)
                              + (IF dt = HitchTime THEN 1 ELSE 0)
    /\ UNCHANGED <<rp, ticks>>

NextPoundLive == PoundLiveTick

SpecPoundPlay == InitPound /\ [][NextPoundLive]_vars

\* what every such update call leaves behind, whatever it does to the
\* player
PoundLiveCalled ==
    /\ player.y > -MaxRise * Unit \/ player.is_ground_pounding
    /\ prev' = player
    /\ \E pressed \in UpTo(PoundLiveKeys \ held, MaxPoundLiveEvents - events) :
       \E released \in UpTo(held \cup pressed,
                            MaxPoundLiveEvents - events - Cardinality(pressed)) :
       \E nowHeld \in {(held \cup pressed) \ released} :
       \E dt \in IF events + Cardinality(pressed) + Cardinality(released)
                    < MaxPoundLiveEvents
                 THEN IdleTimes ELSE {FrameTime} :
          call' = [op |-> "update", dt |-> dt, inp |-> Snapshot(nowHeld, pressed),
                   pressed |-> pressed]

\* run_game_loop calls update in every iteration: the loop does not stop
\* while a further call would still leave something new behind
SpecPoundLive == SpecPoundPlay /\ WF_<<prev, call>>(PoundLiveCalled)

\* Ground pounds over the level with the wall and its lip: one body starts
\* 112 px above the floor, from where a pound begun in the first frame ends
\* exactly on the floor's top, another beside the wall
MaxShakeTicks == 8
MaxShakeEvents == 3

ShakeSpawnPoints == { <<100, 464>>, <<100, 470>>, <<835, 470>> }

ShakeKeys == {"down", "right", "dash"}

InitShake == InitAt(ShakeSpawnPoints)

ShakeTick == FrameOn(LipLevel, ShakeKeys, FrameTime, MaxShakeTicks, MaxShakeEvents, FALSE)

NextShake == ShakeTick

SpecShake == InitShake /\ [][NextShake]_vars

\* Ground pounds onto the floating platform at x = 700..820 from beside its
\* left edge: the bounce carries the body off the platform, over the floor
\* 150 px below, where the next pound is possible
MaxAgainTicks == 14
MaxAgainEvents == 4

AgainSpawnPoints == { <<685, 306>>, <<690, 300>> }

AgainKeys == {"down", "left"}

InitAgain == InitAt(AgainSpawnPoints)

AgainTick == Frame(AgainKeys, FrameTime, MaxAgainTicks, MaxAgainEvents)

NextAgain == AgainTick

SpecAgain == InitAgain /\ [][NextAgain]_vars

\* Both controllers at one keyboard with the jump key only, long enough for
\* three presses and releases
MaxCutTicks == 9
MaxCutEvents == 6

CutSpawnPoints == { <<100, 572>>, <<520, 420>> }

CutKeys == {"jump"}

InitCut == InitAt(CutSpawnPoints)

CutTick == FrameOn(Platforms, CutKeys, FrameTime, MaxCutTicks, MaxCutEvents, TRUE)

NextCut == CutTick

SpecCut == InitCut /\ [][NextCut]_vars

\* Jumps from the floor and back onto it, with the jump key only. A frame
\* that begins with the player on the ground takes any time, none at all
\* and a hitch of 1.2 s included
MaxRestTicks == 12
MaxRestEvents == 6

RestTimes == {0, FrameTime, HitchTime}

RestSpawnPoints == { <<100, 572>>, <<390, 572>> }

RestKeys == {"jump"}

InitRest == InitAt(RestSpawnPoints)

RestTick ==
    \E dt \in IF player.is_on_ground THEN RestTimes ELSE {FrameTime} :
       Frame(RestKeys, dt, MaxRestTicks, MaxRestEvents)

NextRest == RestTick

SpecRest == InitRest /\ [][NextRest]_vars

\* Grenade throws: the whole game logic with the grenade key only, on a
\* machine whose frames all take 250 ms or all take 300 ms, so that the
\* cooldown of one second runs out several times, to zero or past it, and
\* the three grenades are used up; the player stands on the ground or
\* falls through the gap and respawns.
ThrowTimes == {250, 300}
MaxThrowTicks == 13
MaxThrowEvents == 7

ThrowSpawnPoints == { <<100, 572>>, <<520, 420>> }

ThrowKeys == {"grenade"}

InitThrow == InitAt(ThrowSpawnPoints)

ThrowTick ==
    \E dt \in IF call.op = "init" THEN ThrowTimes ELSE {call.dt} :
       LogicFrame(ThrowKeys, dt, MaxThrowTicks, MaxThrowEvents, {})

NextThrow == ThrowTick

SpecThrow == InitThrow /\ [][NextThrow]_vars

\* Health: slow frames of 250 ms with the dash key, in which the damage
\* invincibility of one second runs out, and take_damage called with the
\* 25 the game passes, whatever the player's state; the player stands on
\* the ground or falls through the gap and respawns.
HealthFrameTime == 250
MaxHealthTicks == 14
MaxHealthEvents == 5

HealthSpawnPoints == { <<100, 572>>, <<520, 420>> }

HealthKeys == {"dash"}

InitHealth == InitAt(HealthSpawnPoints)

HealthTick == Frame(HealthKeys, HealthFrameTime, MaxHealthTicks, MaxHealthEvents)

\* update_game_logic's self.player.take_damage(25)
Hit ==
    /\ events < MaxHealthEvents
    /\ \E w \in {take_damage(Work(player), BULLET_DAMAGE)} :
          /\ player' = PlayerOf(w)
          /\ prev' = player
          /\ ev' = EventsOf(w)
          /\ call' = [op |-> "take_damage", dt |-> 0, inp |-> NoInput, pressed |-> {}]
          /\ hist' = AfterStrike(hist, w)
    /\ events' = events + 1
    /\ UNCHANGED <<grenades, bullets, enemies, removed, held, sinceDash, sincePoundJump,
                 rp, ticks>>

NextHealth == HealthTick \/ Hit

SpecHealth == InitHealth /\ [][NextHealth]_vars

\* ------------------------------------------------------------- properties
\* shorthands over the last call
Updated == call.op = "update"
Ticked == Updated /\ ~ev.ev_respawn
Dashing(pl) == pl.dash_timer > 0

\* the player as Player.update finds it at _process_input: x wrapped
AtInput(pl) == [pl EXCEPT !.x = @ % (WORLD_WIDTH * Unit)]

\* what the last update call would have left with the same input but
\* without the ground-pound press
WithoutPoundPress ==
    PlayerOf(update(Work(prev), call.dt,
                    [call.inp EXCEPT !.ground_pound_pressed = FALSE], Platforms, TRUE))

\* position, velocity and the state flags of the player
Kinematics(pl) ==
    << pl.x, pl.y, pl.vx, pl.vy,
       pl.is_on_ground, pl.is_on_wall, pl.wall_direction, pl.is_grabbing_ledge,
       pl.movement_locked, pl.is_invincible, pl.is_ground_pounding,
       pl.can_cut_jump, pl.facing_right, pl.jump_count >>

\* C1 (as claimed): an update call with delta_time = 0 and no key newly
\* pressed leaves position, velocity and every state flag as they were.
C1_ZeroDtChangesNothing ==
    (Updated /\ call.dt = 0 /\ call.pressed = {})
        => Kinematics(player) = Kinematics(prev)

\* C2 (as claimed): after every update tick |velocity.x| is at most the
\* maximum speed of the surface the player is on.
C2_SpeedWithinSurfaceMax ==
    Ticked => Abs(player.vx) <=
                  (IF player.is_on_ground THEN GROUND_MAX_SPEED ELSE AIR_MAX_SPEED) * Unit

\* the update call used none of the abilities that set velocity.x directly
PlainTick ==
    /\ Ticked
    /\ ~Dashing(prev) /\ ~ev.ev_dash_start
    /\ ev.ev_jump \notin {"wall"}
    /\ ~(ev.ev_jump # "none" /\ prev.dash_jump_window_timer > call.dt)
    /\ ev.ev_impact = "none"

\* C2 (amended): left/right input never accelerates the player beyond the
\* maximum speed of the surface it stood on when the tick began: in a tick
\* without dash, wall jump, dash-jump bonus or ground-pound impact
\* |velocity.x| ends at most max(|velocity.x| before, that surface's maximum);
\* and whatever the abilities do, |velocity.x| never exceeds 1.3 * DASH_SPEED.
C2_InputNeverExceedsSurfaceMax ==
    /\ PlainTick =>
         Abs(player.vx) <=
             Max(Abs(prev.vx),
                 (IF prev.is_on_ground THEN GROUND_MAX_SPEED ELSE AIR_MAX_SPEED) * Unit)
    /\ Abs(player.vx) <= Pct(DASH_SPEED * Unit, 130)

\* C2 witness: a tick in which held input has brought the player to the
\* ground maximum and the clamp keeps it there
C2_Witness ==
    /\ PlainTick /\ prev.is_on_ground /\ call.inp.right
    /\ player.vx = GROUND_MAX_SPEED * Unit
    /\ prev.vx < player.vx

\* number of the exclusive ability states that are active
ActiveAbilities(pl) ==
    (IF Dashing(pl) THEN 1 ELSE 0) + (IF pl.is_ground_pounding THEN 1 ELSE 0)
        + (IF pl.is_grabbing_ledge THEN 1 ELSE 0)

\* C3 (as claimed): at most one of dashing, ground-pounding, ledge-grabbing
\* holds in every reachable state.
C3_OneAbilityAtATime == ActiveAbilities(player) <= 1

\* C4: a respawn, from update or from take_damage, leaves the position at
\* the stored spawn coordinate and the velocity at zero, and that is the
\* state at the end of the call.
C4_RespawnRestoresSpawn ==
    ev.ev_respawn =>
        /\ player.x = player.spawn_x /\ player.y = player.spawn_y
        /\ player.vx = 0 /\ player.vy = 0

\* C4 witness: an update call respawned a player that was in mid-dash and
\* had moved away from the spawn point
C4_Witness ==
    /\ Updated /\ ev.ev_respawn /\ Dashing(prev)
    /\ prev.vy # 0 /\ prev.y # prev.spawn_y

\* the ability timers and flags of a freshly constructed player
AbilityState(pl) ==
    << Dashing(pl), pl.dash_cooldown_timer > 0, pl.is_invincible,
       pl.invincibility_timer > 0, pl.jump_count, pl.jump_buffer_timer > 0,
       pl.coyote_time_remaining > 0, pl.dash_jump_window_timer > 0,
       pl.wall_jump_momentum_timer > 0, pl.is_grabbing_ledge,
       pl.ledge_grab_timer > 0, pl.is_ground_pounding,
       pl.ground_pound_cooldown_timer > 0,
       pl.ground_pound_super_bounce_buffer > 0, pl.health >>

\* C5 (as claimed): after a respawn every ability timer and flag has its
\* spawn-time default and health is max_health.
C5_RespawnResetsAbilities ==
    ev.ev_respawn => AbilityState(player) = AbilityState(PlayerInit(0, 0))

\* C6 (as claimed): from the start of a dash is_invincible is true until
\* DASH_INVINCIBILITY_TIME of update time has passed and is false at the
\* update that completes it, whatever happened in between.
C6_DashInvincibilityExact ==
    /\ (sinceDash >= 0 /\ sinceDash < DASH_INVINCIBILITY_TIME) => player.is_invincible
    /\ (Updated /\ sinceDash = DASH_INVINCIBILITY_TIME) => ~player.is_invincible

\* at rest on the ground in the normal state
AtRest(pl) ==
    /\ pl.is_on_ground /\ pl.vx = 0 /\ pl.vy = 0
    /\ ~Dashing(pl) /\ ~pl.is_ground_pounding /\ ~pl.is_grabbing_ledge
    /\ ~pl.movement_locked

\* an update call in which jump was pressed by a player at rest
JumpFromRest ==
    /\ Ticked /\ AtRest(prev)
    /\ call.inp.jump_pressed /\ ~call.inp.dash_pressed

PlainBounce == GROUND_POUND_BOUNCE * Unit
SuperBounce == Pct(GROUND_POUND_BOUNCE * Unit, GROUND_POUND_SUPER_BOUNCE_PCT)

PoundPressedInAir ==
    /\ Ticked /\ call.inp.ground_pound_pressed
    /\ ~prev.is_ground_pounding
    /\ prev.ground_pound_cooldown_timer <= 0
    /\ ~prev.is_on_ground

HeightAtInput == get_height_above_ground(AtInput(prev), Platforms)

\* C9: a ground-pound press at a measured height below
\* GROUND_POUND_MIN_HEIGHT (0 when no platform is below) is a no-op: the
\* pound does not start and the update call ends exactly as it would have
\* without the press.
C9_LowPoundIsNoOp ==
    (PoundPressedInAir /\ HeightAtInput < GROUND_POUND_MIN_HEIGHT * Unit) =>
        /\ ~player.is_ground_pounding
        /\ ~ev.ev_gp_start
        /\ player = WithoutPoundPress

\* C9 witness: such a press over a platform nearer than the minimum height,
\* in a tick that moved the player
C9_Witness ==
    /\ PoundPressedInAir
    /\ HeightAtInput > 0 /\ HeightAtInput < GROUND_POUND_MIN_HEIGHT * Unit
    /\ player.vy # prev.vy

\* the ground-pound press of the last call was eligible
PoundEligible ==
    PoundPressedInAir /\ HeightAtInput >= GROUND_POUND_MIN_HEIGHT * Unit

\* C10: is_ground_pounding goes from false to true only in an update call
\* in which ground-pound is pressed by an airborne player, off cooldown, at
\* least GROUND_POUND_MIN_HEIGHT above the platform below; a press in any
\* other case changes no state.
C10_PoundStartsOnlyWhenEligible ==
    /\ (ev.ev_gp_start \/ (~prev.is_ground_pounding /\ player.is_ground_pounding))
           => PoundEligible
    /\ (Ticked /\ call.inp.ground_pound_pressed /\ ~PoundEligible)
           => player = WithoutPoundPress

\* C10 witness: a ground pound has just started
C10_Witness ==
    /\ ~prev.is_ground_pounding /\ player.is_ground_pounding
    /\ player.vy = GROUND_POUND_SPEED * Unit

\* C11: whenever is_ground_pounding is true at the end of an update call,
\* velocity.y is GROUND_POUND_SPEED and velocity.x is 0.
C11_PoundVelocityIsFixed ==
    (Updated /\ player.is_ground_pounding) =>
        /\ player.vy = GROUND_POUND_SPEED * Unit
        /\ player.vx = 0

\* C11 witness: a pound that started from a moving player is still active a
\* tick later, with a direction key held
C11_Witness ==
    /\ Updated /\ prev.is_ground_pounding /\ player.is_ground_pounding
    /\ (call.inp.left \/ call.inp.right)
    /\ player.y > prev.y


\* C12: at the end of any update call in which the player went from airborne
\* to grounded, jump_count is 0 and coyote_time_remaining is 0.
C12_LandingResetsJumps ==
    (Ticked /\ ~prev.is_on_ground /\ player.is_on_ground) =>
        /\ player.jump_count = 0
        /\ player.coyote_time_remaining = 0

\* the last update call stopped the player against the left face of a
\* platform while it moved right without dashing
StoppedAtLeftFace ==
    Ticked /\ ev.ev_wall # 0 /\ ev.ev_wall_vx > 0 /\ ~Dashing(player)

\* the same for the ResponsivePlayer in its last frame
ResponsiveStoppedAtLeftFace ==
    rp.rev_wall # 0 /\ rp.rev_wall_vx > 0 /\ ~rp.rev_wall_dashing

\* C13 as stated: a player moving right, not dashing, that is stopped by a
\* platform's left face ends the tick with position.x exactly platform.left
\* minus half the body width, velocity.x 0, the on-wall flag true and
\* wall_direction 1, in either controller.
C13_ClampedFlushToLeftFace ==
    /\ StoppedAtLeftFace =>
          /\ player.x = (Platforms[ev.ev_wall].l - RECT_WIDTH \div 2) * Unit
          /\ player.vx = 0
          /\ player.is_on_wall
          /\ player.wall_direction = 1
    /\ ResponsiveStoppedAtLeftFace =>
          /\ rp.x = (ActionLevel[rp.rev_wall].l - BODY_WIDTH \div 2) * Unit
          /\ rp.vx = 0
          /\ rp.on_wall
          /\ rp.wall_direction = 1

\* C13 amended: the Player ends the tick COLLISION_TOLERANCE short of that
\* position, at platform.left minus half the body width minus one pixel,
\* with velocity.x 0, is_on_wall true and wall_direction 1; the
\* ResponsivePlayer ends it exactly at platform.left minus half the body
\* width with velocity.x 0, and on_wall with wall_direction 1 only if its
\* right side is within the wall band of the right screen edge.
C13_ClampedShortOfLeftFace ==
    /\ StoppedAtLeftFace =>
          /\ player.x = (Platforms[ev.ev_wall].l - RECT_WIDTH \div 2
                          - COLLISION_TOLERANCE) * Unit
          /\ player.vx = 0
          /\ player.is_on_wall
          /\ player.wall_direction = 1
    /\ ResponsiveStoppedAtLeftFace =>
          /\ rp.x = (ActionLevel[rp.rev_wall].l - BODY_WIDTH \div 2) * Unit
          /\ rp.vx = 0
          /\ rp.on_wall <=> (/\ ~rp.on_ground
                              /\ ActionLevel[rp.rev_wall].l >= SCREEN_WIDTH - WALL_THICKNESS)
          /\ rp.wall_direction = (IF rp.on_wall THEN 1 ELSE 0)

\* C13 witness: in the same frame the Player, pushing right against the
\* wall, and the ResponsivePlayer, drifting right after a dash, were each
\* stopped by a left face they would otherwise have entered.
C13_Witness ==
    /\ StoppedAtLeftFace
    /\ call.inp.right
    /\ prev.x + Move(ev.ev_wall_vx, call.dt)
           > (Platforms[ev.ev_wall].l - RECT_WIDTH \div 2) * Unit
    /\ ResponsiveStoppedAtLeftFace
    /\ ~rp.on_wall

\* C14: the jumps-used counter of either controller is always within
\* 0..MAX_JUMPS (2): Player.jump_count and ResponsivePlayer.jumps_used.
C14_JumpsUsedInRange ==
    /\ player.jump_count \in 0..MAX_JUMPS
    /\ rp.jumps_used \in 0..MAX_JUMPS

\* C14 witness: jump was pressed again with both counters already at 2, and
\* neither controller jumped.
C14_Witness ==
    /\ Ticked /\ ev.ev_normal /\ call.inp.jump_pressed
    /\ prev.jump_count = MAX_JUMPS /\ player.jump_count = MAX_JUMPS
    /\ ev.ev_jump = "none"
    /\ rp.rev_jump = "ignored" /\ rp.jumps_used = MAX_JUMPS

\* C15: once the player has been airborne with |velocity.x| < 5 and
\* |velocity.y| < 5 over consecutive update calls that add up to more than
\* STUCK_TIME (1 s), the call that passed the mark included, movement_locked
\* is true.
C15_StuckLocksMovement ==
    (Ticked /\ hist.still > STUCK_TIME + call.dt) => player.movement_locked

\* the last step was a take_damage call or a bullet overlapping the player
Struck == call.op \in {"take_damage", "bullet"}

\* C16: while is_invincible is true, neither a take_damage call nor an
\* overlapping bullet changes health or any other field of the player;
\* when it is false both take health away (or respawn the player at zero
\* health) and start the damage invincibility.
C16_InvincibleIgnoresDamage ==
    /\ (Struck /\ prev.is_invincible) => player = prev /\ ~ev.ev_respawn
    /\ (Struck /\ ~prev.is_invincible) =>
          /\ ev.ev_respawn \/ player.health < prev.health
          /\ player.is_invincible
          /\ player.invincibility_timer = DAMAGE_INVINCIBILITY_TIME

\* C16 witness: take_damage was called on a player that an earlier hit had
\* made invincible and had left with less than full health.
C16_Witness ==
    /\ call.op = "take_damage"
    /\ prev.is_invincible
    /\ prev.health < MAX_HEALTH
    /\ player.health = prev.health

\* C17: after every update call, the respawning one included, and after a
\* take_damage call that respawned the player, collision_rect.center is
\* (int(position.x), int(position.y)).
C17_RectFollowsPosition ==
    (Updated \/ (call.op = "take_damage" /\ ev.ev_respawn)) =>
        /\ player.rect_cx = Px(player.x)
        /\ player.rect_cy = Px(player.y)

\* C18: a dash that starts while a ground pound is active cancels it
\* (is_ground_pounding is false at the end of that call unless a new pound
\* began in it), and the call in which the player next touches a floor ends
\* with velocity.y 0, no impact, no screen shake and no ground-pound
\* cooldown running.
C18_DashCancelsPound ==
    /\ (Ticked /\ ev.ev_dash_start /\ prev.is_ground_pounding /\ ~ev.ev_gp_start)
          => ~player.is_ground_pounding
    /\ (Ticked /\ hist.cancelLanding) =>
          /\ player.is_on_ground
          /\ player.vy = 0
          /\ ev.ev_impact = "none"
          /\ ev.ev_shake = 0
          /\ player.ground_pound_cooldown_timer <= 0

\* C18 witness: the player lands in a later call than the one in which the
\* dash cancelled the pound.
C18_Witness ==
    /\ Ticked /\ hist.cancelLanding
    /\ ~ev.ev_dash_start
    /\ ~prev.is_ground_pounding /\ ~prev.is_on_ground
    /\ player.is_on_ground

\* the last update call found the player below RESPAWN_Y_THRESHOLD and put
\* it back at its spawn point
RespawnedAtSpawn ==
    /\ Updated /\ ev.ev_respawn
    /\ prev.y > RESPAWN_Y_THRESHOLD * Unit
    /\ player.x = player.spawn_x /\ player.y = player.spawn_y

PendingOnGround ==
    /\ Ticked /\ ev.ev_normal /\ ~call.inp.jump_pressed
    /\ prev.is_on_ground
    /\ hist.ageBefore >= 0

C21_GrenadeEvaluatesOnceBeforeRemoval ==
    \A k \in 1..Len(removed.grenades) : removed.grenades[k].evaluations = 1

\* the box of a bullet of game003: pygame.Rect(x - size//2, y - size//2, size, size)
ShotRect(b) ==
    Rect(Px(b.x - (BULLET_SIZE \div 2) * Unit), Px(b.y - (BULLET_SIZE \div 2) * Unit),
         BULLET_SIZE, BULLET_SIZE)

\* the bullets of game003 that are in play
ActiveShots == SelectSeq(rp.bullets, LAMBDA b : b.active)

\* C22: after every tick with dt > 0 each bullet still in play has been
\* through less update time than its lifetime, all of that time counted off
\* its remaining lifetime, and its box overlaps no platform; in main.py it
\* does not overlap the box of a player that is not invincible either, and a
\* bullet removed for hitting the player took BULLET_DAMAGE off the health
\* it found (a player left without health respawns with full health).
C22_BulletsLeavePlay ==
    /\ \A k \in 1..Len(bullets) :
          /\ bullets[k].lifetime_remaining > 0
          /\ bullets[k].lifetime_remaining + bullets[k].age = BULLET_LIFETIME
          /\ FirstHit(Platforms, BulletRect(bullets[k])) = 0
          /\ player.is_invincible
                \/ ~CollideRect(BulletRect(bullets[k]), PlayerRect(player))
    /\ \A k \in 1..Len(removed.bullets) :
          removed.bullets[k].why = "player" =>
             /\ player.is_invincible
             /\ \A j \in (k + 1)..Len(removed.bullets) :
                   removed.bullets[j].health =
                       IF removed.bullets[k].health > BULLET_DAMAGE
                       THEN removed.bullets[k].health - BULLET_DAMAGE
                       ELSE MAX_HEALTH
             /\ (\A j \in (k + 1)..Len(removed.bullets) :
                    removed.bullets[j].why # "player") =>
                   player.health =
                       IF removed.bullets[k].health > BULLET_DAMAGE
                       THEN removed.bullets[k].health - BULLET_DAMAGE
                       ELSE MAX_HEALTH
    /\ \A k \in 1..Len(ActiveShots) :
          /\ ActiveShots[k].lifetime > 0
          /\ ActiveShots[k].lifetime + ActiveShots[k].age = game003_BULLET_LIFETIME
          /\ FirstHit(ActionLevel, ShotRect(ActiveShots[k])) = 0

\* a bullet of main.py has run out of lifetime after another one had hit the
\* player
C22_Witness ==
    /\ \E k \in 1..Len(removed.bullets) :
          /\ removed.bullets[k].why = "lifetime"
          /\ removed.bullets[k].b.age = BULLET_LIFETIME
    /\ player.health = MAX_HEALTH - BULLET_DAMAGE

\* C23: after every tick of either controller the vertical velocity is at
\* most that controller's MAX_FALL_SPEED, whether the player falls freely,
\* fast-falls, pounds, slides down a wall or dashes downward.
C23_FallSpeedCapped ==
    /\ player.vy <= MAX_FALL_SPEED * Unit
    /\ rp.vy <= game003_MAX_FALL_SPEED * Unit

\* both controllers have fallen long enough for gravity to exceed the cap
\* and move at exactly their terminal speeds
C23_Witness ==
    /\ call.op = "update"
    /\ prev.vy + GRAVITY * call.dt > MAX_FALL_SPEED * Unit
    /\ player.vy = MAX_FALL_SPEED * Unit
    /\ rp.vy = game003_MAX_FALL_SPEED * Unit

\* C24: a dash starts only in a state where the dash cooldown is <= 0 and
\* no dash is in progress (Player: dash_timer <= 0 when _start_dash is
\* called; ResponsivePlayer: dashing false when start_dash is called),
\* the ticks right after a respawn included.
C24_DashStartsOnlyWhenReady ==
    /\ ev.ev_dash_start => ev.ev_dash_cooldown <= 0 /\ ev.ev_dash_timer <= 0
    /\ rp.rev_dash_start => rp.rev_dash_cooldown <= 0 /\ ~rp.rev_dash_dashing

\* how far the box r is inside the platform pl along the axis of minimal
\* overlap, 0 if they do not collide
Penetration(r, pl) == IF CollideRect(r, pl) THEN MinOverlap(Overlaps(r, pl)) ELSE 0

\* C25: after every Player.update that does not respawn, the player's box
\* overlaps no platform of the layout by more than MAX_PENETRATION along
\* the axis of minimal overlap, several platforms touched at once included.
C25_NoDeepPenetration ==
    Ticked =>
        \A i \in 1..Len(LipLevel) :
           Penetration(BodyRect(player.x, player.y), LipLevel[i]) <= MAX_PENETRATION

\* C26: with no input and delta_time > 0 in every call, a player in the air
\* eventually is grounded or respawned: it does not hang in the air
\* forever.
C26_AirborneEventuallySettles ==
    (~player.is_on_ground) ~> (player.is_on_ground \/ ev.ev_respawn)

\* C27: with delta_time > 0 in every call a ground pound that has started
\* eventually ends, whatever the keys do and also while movement is locked.
C27_GroundPoundEnds ==
    player.is_ground_pounding ~> ~player.is_ground_pounding

\* a pound that began while movement was locked has ended on the floor
C27_Witness ==
    /\ Ticked
    /\ prev.is_ground_pounding /\ prev.movement_locked
    /\ ~player.is_ground_pounding
    /\ ev.ev_impact # "none"

\* C28: in every update call that finds dash_timer > 0 at movement time,
\* movement not being locked, the velocity the collision passes integrate
\* is dash_direction * DASH_SPEED, and a horizontal wall contact in that
\* call leaves velocity.x as it is.
C28_DashVelocityIntegrated ==
    (Ticked /\ ev.ev_dash_move) =>
        LET diagonal == player.dash_dx # 0 /\ player.dash_dy # 0
        IN /\ ev.ev_int_vx = DashComponent(player.dash_dx, diagonal)
           /\ ev.ev_int_vy = DashComponent(player.dash_dy, diagonal)
           /\ ev.ev_wall # 0 => ev.ev_wall_vx_out = ev.ev_int_vx

\* a dash that was already under way ran into a wall and kept its speed
C28_Witness ==
    /\ Ticked /\ ev.ev_dash_move /\ ~ev.ev_dash_start
    /\ ev.ev_wall # 0
    /\ ev.ev_wall_vx_out = DASH_SPEED * Unit
    /\ player.vx = DASH_SPEED * Unit

\* the square of the magnitude of the velocity (vx, vy), in (px/10 per s)^2
Speed2(vx, vy) == Quot(vx, 100) * Quot(vx, 100) + Quot(vy, 100) * Quot(vy, 100)

\* the update call in which a dash of the Player ran out: dash_timer was
\* > 0 before it and is not after it, and the call did normal movement
DashEnded ==
    Ticked /\ Dashing(prev) /\ ~Dashing(player) /\ ev.ev_normal

\* C29: in both controllers, on the tick a dash ends the velocity is
\* damped: its magnitude is strictly smaller than DASH_SPEED and it is not
\* zero (Player: the velocity after the movement step of that call;
\* ResponsivePlayer: the velocity after `velocity *= 0.5`, unless it was
\* zero before).
C29_DashEndDamped ==
    /\ DashEnded =>
          /\ Speed2(ev.ev_int_vx, ev.ev_int_vy) < Speed2(DASH_SPEED * Unit, 0)
          /\ ev.ev_int_vx # 0 \/ ev.ev_int_vy # 0
    /\ rp.rev_dash_end =>
          /\ Speed2(rp.rev_end_vx, rp.rev_end_vy) < Speed2(game003_DASH_SPEED * Unit, 0)
          /\ (rp.rev_end_vx_in # 0 \/ rp.rev_end_vy_in # 0)
                => (rp.rev_end_vx # 0 \/ rp.rev_end_vy # 0)

C31_ImpactStartsCooldown ==
    /\ Ticked /\ ev.ev_impact # "none" =>
           /\ ~player.is_ground_pounding
           /\ player.ground_pound_super_bounce_buffer = 0
           /\ player.ground_pound_cooldown_timer = GROUND_POUND_COOLDOWN
    /\ Ticked /\ ev.ev_gp_start =>
           hist.impactBefore < 0 \/ hist.impactBefore >= GROUND_POUND_COOLDOWN

\* C31: a second ground pound has started, the cooldown after the hit of
\* the first having run out
C31_Witness ==
    /\ Ticked
    /\ ev.ev_gp_start
    /\ hist.impactBefore >= GROUND_POUND_COOLDOWN

\* the same platforms stored in another order: the list reversed, and the
\* list with its first platform moved to the end
Reversed(plats) == [i \in 1..Len(plats) |-> plats[Len(plats) + 1 - i]]

Rotated(plats) == Tail(plats) \o << Head(plats) >>

StorageOrders(plats) == { Reversed(plats), Rotated(plats) }

\* what C32 compares of the player after an update
Outcome(pl) ==
    [ x |-> pl.x, y |-> pl.y, vx |-> pl.vx, vy |-> pl.vy,
      is_on_ground |-> pl.is_on_ground, is_on_wall |-> pl.is_on_wall,
      wall_direction |-> pl.wall_direction ]

\* C32: the last update call, made again from the same player with the same
\* delta_time and input on the same platforms stored in another order,
\* gives the same position, velocity, is_on_ground, is_on_wall and
\* wall_direction (on the level with the wall and its lip)
C32_OrderIndependent ==
    Updated =>
       \A order \in StorageOrders(LipLevel) :
          Outcome(update(Work(prev), call.dt, call.inp, order, TRUE)) = Outcome(player)

\* C33: a frame of game003 in which ResponsivePlayer jumps at full
\* JUMP_VELOCITY has jump newly pressed, and at that press the player was on
\* the ground or had left it less than COYOTE_TIME before, with no jump used
C33_FullJumpOnlyNearGround ==
    rp.rev_jump = "first" =>
       /\ rp.rev_press
       /\ rp.rev_press_jumps = 0
       /\ rp.rev_press_ground \/ rp.rev_press_air < game003_COYOTE_TIME

\* C34: since the player was last on the ground at the end of an update
\* call, at most one jump was made at JUMP_STRENGTH, and a call that makes
\* one and leaves the player airborne leaves the coyote window closed
C34_OneFullJumpPerGrounding ==
    /\ hist.fulls <= 1
    /\ Ticked /\ ev.ev_jump = "full" /\ ~player.is_on_ground =>
           player.coyote_time_remaining = 0

\* C34: a jump at JUMP_STRENGTH was followed, with no grounding between,
\* by a jump at DOUBLE_JUMP_STRENGTH
C34_Witness ==
    /\ Ticked
    /\ hist.fulls = 1
    /\ ev.ev_jump = "double"
    /\ player.vy < 0
    /\ ~prev.is_on_ground /\ ~player.is_on_ground

\* C35: when an update call begins with the player ascending in a jump
\* that can still be cut, and its _handle_jumping finds jump not held and
\* MIN_JUMP_TIME not yet passed since the jump, that call cuts velocity.y
\* to JUMP_CUT_MULTIPLIER of its value; and in game003 the release of jump
\* halves velocity.y at most once between one jump and the next
C35_EarlyReleaseCutsOnce ==
    /\ ( /\ Ticked /\ ev.ev_normal
         /\ prev.vy < 0 /\ prev.can_cut_jump /\ ev.ev_jump = "none"
         /\ ~call.inp.jump_held /\ ev.ev_cut_early ) => ev.ev_cut
    /\ rp.cuts <= 1

\* C36: in an update call made while the wall_jump_momentum_timer of a wall
\* jump runs, with only the direction towards the wall that was left held,
\* _handle_horizontal_movement leaves velocity.x as it would with no
\* direction held
C36_NoPullBackToWall ==
    ( /\ Ticked /\ ev.ev_normal
      /\ hist.wallFromBefore # 0 /\ ev.ev_hm_timer > 0
      /\ call.inp.right = (hist.wallFromBefore = 1)
      /\ call.inp.left = (hist.wallFromBefore = -1) )
    => ev.ev_hm_vx = ev.ev_hm_idle_vx

C38_GrenadeBudget ==
    /\ player.remaining_grenades \in 0..MAX_GRENADES
    /\ Updated =>
          /\ Len(ev.ev_thrown) <= 1
          /\ Len(grenades) + Len(removed.grenades)
                = hist.grenadesBefore + Len(ev.ev_thrown)
    /\ (Updated /\ ev.ev_thrown # << >>) =>
          /\ call.inp.grenade_pressed
          /\ prev.grenade_cooldown_timer <= 0
          /\ prev.remaining_grenades > 0
          /\ player.remaining_grenades = prev.remaining_grenades - 1
          /\ hist.throwBefore < 0 \/ hist.throwBefore >= GRENADE_THROW_COOLDOWN

\* C38 witness: the third grenade leaves the player's hand exactly one
\* cooldown after the second, and none is left.
C38_Witness ==
    /\ Updated /\ ev.ev_thrown # << >>
    /\ hist.throwBefore = GRENADE_THROW_COOLDOWN
    /\ prev.grenade_cooldown_timer = 0
    /\ player.remaining_grenades = 0

\* C39: after every take_damage call, every bullet overlap and every update
\* call, 0 < health <= max_health: a hit that would bring the health to 0
\* respawns the player with full health, any other hit that lands leaves
\* less health than before but more than 0, and an update call that
\* respawns the player ends with full health.
C39_HealthNeverZero ==
    /\ player.health > 0
    /\ player.health <= MAX_HEALTH
    /\ (Struck /\ ev.ev_respawn) => player.health = MAX_HEALTH
    /\ (Struck /\ ~ev.ev_respawn /\ ~prev.is_invincible) => player.health < prev.health
    /\ (Updated /\ ev.ev_respawn) => player.health = MAX_HEALTH

\* C39 witness: the fourth hit of BULLET_DAMAGE took the last of the
\* player's health, and the player is back at full health.
C39_Witness ==
    /\ call.op = "take_damage"
    /\ ~prev.is_invincible
    /\ prev.health = BULLET_DAMAGE
    /\ ev.ev_respawn
    /\ player.health = MAX_HEALTH

====
